---------------------------- MODULE Spec2Model ----------------------------
(***************************************************************************)
(* Change-data-capture import / sync reconciliation of the lift-tracker    *)
(* API: import_equipment and sync_equipment_from_wger                      *)
(* (app/api/v1/equipment.py), import_exercises and sync_exercises_from_wger*)
(* (app/api/v1/exercises.py, app/crud/crud_exercise.py).                   *)
(*                                                                         *)
(* The tables are sets of rows.  Every handler processes its records one   *)
(* at a time; one record is one atomic step, and requests of other clients *)
(* (the create endpoints) may run between two steps.  The persistence      *)
(* layer is the one the handlers program against: exact-name lookup,       *)
(* insert with a unique index on name, update of the given columns,        *)
(* delete by id, and a session that has to be rolled back after a failed   *)
(* statement before it can be used again.                                  *)
(***************************************************************************)
EXTENDS Integers, Sequences, FiniteSets, TLC

(***************************************************************************)
(* Bounds of the model.                                                    *)
(***************************************************************************)
MaxRows == 2

MaxOtherWrites == 1

(***************************************************************************)
(* Values.                                                                 *)
(***************************************************************************)
None == "<None>"

\* (faulty variant: the cell is taken as it is)
StripNothing(s) == s

\* str.strip() on the strings the model uses: " " is the whitespace-only cell
Strip(s) ==
    CASE s = " " -> ""
      [] s = " TRUE " -> "TRUE"
      [] s = " no " -> "no"
      [] OTHER -> s

\* str.lower() on the strings the model uses
Lower(s) ==
    CASE s = "Band" -> "band"
      [] s = "Bar" -> "bar"
      [] s = "Squat" -> "squat"
      [] s = "Row" -> "row"
      [] s = "Lats" -> "lats"
      [] s = "Chest" -> "chest"
      [] s = "TRUE" -> "true"
      [] s = "Yes" -> "yes"
      [] s = "Enabled" -> "enabled"
      [] s = "Y" -> "y"
      [] OTHER -> s

Min(a, b) == IF a < b THEN a ELSE b

Range(f) == {f[i] : i \in DOMAIN f}

\* all sequences over S of length 0..n
SeqsUpTo(S, n) == UNION {[1..k -> S] : k \in 0..n}

\* dict[key] = value
Put(m, k, v) == [x \in DOMAIN m \cup {k} |-> IF x = k THEN v ELSE m[x]]

EmptyMap == [x \in {} |-> None]

(***************************************************************************)
(* import_equipment: normalisation of one CSV row.                         *)
(***************************************************************************)
EquipmentTruthy == {"true", "1", "yes", "enabled"}

\* row.get("description", "").strip() or None
EquipmentDescription(row) == IF Strip(row.description) = "" THEN None ELSE Strip(row.description)

\* row.get("enabled", "true").strip().lower() in ("true", "1", "yes", "enabled")
EquipmentEnabled(row) ==
    Lower(Strip(IF "enabled" \in DOMAIN row THEN row.enabled ELSE "true")) \in EquipmentTruthy

\* (faulty variant: the name itself is the key, so letter case distinguishes)
MapKeyExact(name) == name

\* the key of existing_equipment_map / existing_exercise_map / muscle_group_name_map
MapKey(name) == Lower(name)

\* The maps that the loop "for eq in existing: map[name.lower()] = eq" can
\* build: when two rows share a key the one iterated last wins, and the
\* order of an unordered SELECT is the database's choice.
BuildMaps(rows) ==
    LET keys == {MapKey(r.name) : r \in rows}
    IN  {g \in [keys -> rows] : \A k \in keys : MapKey(g[k].name) = k}

\* the fields of EquipmentRead that the handlers read
EquipmentSnapshot(e) == [name |-> e.name, description |-> e.description, enabled |-> e.enabled]

\* existing_equipment_map
EquipmentMaps(table) == {[k \in DOMAIN m |-> EquipmentSnapshot(m[k])] : m \in BuildMaps(table)}

\* (faulty variant: both columns are written whether they differ or not)
EquipmentUpdateDataNoDiff(existing, description, enabled) == {"description", "enabled"}

\* update_data of import_equipment: the columns that differ
EquipmentUpdateData(existing, description, enabled) ==
    {c \in {"description", "enabled"} :
        \/ c = "description" /\ description # existing.description
        \/ c = "enabled" /\ enabled # existing.enabled}

\* (faulty variant: the table is replaced by the rows that were written)
UpdateEquipmentByNameOnly(table, name, cols, description, enabled) ==
    {[e EXCEPT !.description = IF "description" \in cols THEN description ELSE @,
               !.enabled = IF "enabled" \in cols THEN enabled ELSE @] :
        e \in {x \in table : x.name = name}}

\* crud_equipment.update(db, object=update_data, name=existing_name)
UpdateEquipmentByName(table, name, cols, description, enabled) ==
    {IF e.name = name
        THEN [e EXCEPT !.description = IF "description" \in cols THEN description ELSE @,
                       !.enabled = IF "enabled" \in cols THEN enabled ELSE @]
        ELSE e : e \in table}

\* (faulty variant: the index rejects every insert into a table that holds a row)
NameTakenAny(table, name) == table # {}

\* the unique index on equipment.name / exercise.name / muscle_group.name
NameTaken(table, name) == \E e \in table : e.name = name

(***************************************************************************)
(* import_exercises / sync_exercises_from_wger: normalisation.             *)
(***************************************************************************)
ExerciseTruthy == {"true", "1", "yes", "y"}

\* row.get("enabled", "true").strip().lower() in ("true", "1", "yes", "y")
ExerciseEnabled(row) ==
    Lower(Strip(IF "enabled" \in DOMAIN row THEN row.enabled ELSE "true")) \in ExerciseTruthy

\* [s.strip() for s in cell.split(",") if s.strip()]; a cell is the sequence of its parts
RECURSIVE CellNames(_)
CellNames(cell) ==
    IF cell = <<>> THEN <<>>
    ELSE IF Strip(Head(cell)) = "" THEN CellNames(Tail(cell))
    ELSE <<Strip(Head(cell))>> \o CellNames(Tail(cell))

\* the loop over the names of a cell of import_exercises: ids of the names the
\* map knows, without duplicates, in the order of the cell
RECURSIVE ResolveIds(_, _, _)
ResolveIds(names, name_map, ids) ==
    IF names = <<>> THEN ids
    ELSE LET key == MapKey(Head(names))
         IN  IF key \notin DOMAIN name_map THEN ResolveIds(Tail(names), name_map, ids)
             ELSE IF name_map[key] \in Range(ids) THEN ResolveIds(Tail(names), name_map, ids)
             ELSE ResolveIds(Tail(names), name_map, Append(ids, name_map[key]))

\* the names of a cell for which the loop appends "... not found"
RECURSIVE UnknownNames(_, _)
UnknownNames(names, name_map) ==
    IF names = <<>> THEN <<>>
    ELSE IF MapKey(Head(names)) \notin DOMAIN name_map
         THEN <<Head(names)>> \o UnknownNames(Tail(names), name_map)
         ELSE UnknownNames(Tail(names), name_map)

\* (faulty variant: the lists are compared as lists, order included)
IdSetOrdered(ids) == ids

\* set(ids): the comparison of reference lists ignores order
IdSet(ids) == Range(ids)

\* needs_update of import_exercises
ImportNeedsUpdate(existing, name, primary_ids, secondary_ids, enabled) ==
    \/ existing.name # name
    \/ IdSet(existing.primary_muscle_group_ids) # IdSet(primary_ids)
    \/ IdSet(existing.secondary_muscle_group_ids) # IdSet(secondary_ids)
    \/ existing.enabled # enabled

\* needs_update of sync_exercises_from_wger (enabled is not compared)
SyncNeedsUpdate(existing, name, primary_ids, secondary_ids) ==
    \/ existing.name # name
    \/ IdSet(existing.primary_muscle_group_ids) # IdSet(primary_ids)
    \/ IdSet(existing.secondary_muscle_group_ids) # IdSet(secondary_ids)

\* ExerciseUpdate(name=name if changed else None, ...): the keyword arguments
\* whose value is None.  Every keyword that is passed counts as set, so
\* model_dump(exclude_unset=True) keeps it, None included.
UpdateNulls(existing, name, primary_ids, enabled, passed) ==
    {c \in passed :
        \/ c = "name" /\ existing.name = name
        \/ c = "primary_muscle_group_ids"
              /\ IdSet(existing.primary_muscle_group_ids) = IdSet(primary_ids)
        \/ c = "enabled" /\ existing.enabled = enabled}

\* Field(min_length=1) of primary_muscle_group_ids in ExerciseCreate / ExerciseUpdate
PrimaryIdsValid(primary_ids) == Len(primary_ids) >= 1

ImportUpdateColumns == {"name", "primary_muscle_group_ids", "enabled"}

SyncUpdateColumns == {"name", "primary_muscle_group_ids"}

\* update_exercise_with_muscle_groups: "ok" or the exception of the UPDATE.
\* name, primary_muscle_group_ids and enabled are NOT NULL columns and name
\* is unique.
UpdateExerciseResult(table, exercise_id, nulls, name) ==
    IF nulls # {} THEN "IntegrityError"
    ELSE IF \E e \in table : e.name = name /\ e.id # exercise_id THEN "IntegrityError"
    ELSE "ok"

\* the rows after update_exercise_with_muscle_groups succeeded: the columns of
\* exercise_dict are written, the secondary associations are replaced when
\* secondary_muscle_group_ids is not None
UpdateExerciseRows(table, exercise_id, cols, name, primary_ids, enabled, secondary_changed, secondary_ids) ==
    {IF e.id = exercise_id
        THEN [e EXCEPT !.name = IF "name" \in cols THEN name ELSE @,
                       !.primary_muscle_group_ids =
                            IF "primary_muscle_group_ids" \in cols THEN primary_ids ELSE @,
                       !.enabled = IF "enabled" \in cols THEN enabled ELSE @,
                       !.secondary_muscle_group_ids =
                            IF secondary_changed THEN secondary_ids ELSE @]
        ELSE e : e \in table}

\* create_exercise_with_muscle_groups: the row and its secondary associations
NewExercise(id, name, primary_ids, secondary_ids, enabled) ==
    [id |-> id, name |-> name, primary_muscle_group_ids |-> primary_ids,
     secondary_muscle_group_ids |-> secondary_ids, enabled |-> enabled]

\* (faulty variant: only the enabled exercises are deleted)
DeleteEnabledExercises(table, ids) == {e \in table : e.id \notin ids \/ ~e.enabled}

\* the loop "for ex in all_exercises: crud_exercises.db_delete(db, id=ex_id)"
DeleteExercises(table, ids) == {e \in table : e.id \notin ids}

\* crud_exercises.get(db, name=exercise_name, schema_to_select=ExerciseRead)
GetByName(table, name) == {e \in table : e.name = name}

\* muscle_group_name_map[mg_name.lower()] = mg_id
MuscleGroupNameMaps(table) == {[k \in DOMAIN m |-> m[k].id] : m \in BuildMaps(table)}

Error(at, what) == [at |-> at, what |-> what]

\* errors.append(...) for every name of a sequence
ErrorsFor(at, what, names) == [i \in 1..Len(names) |-> Error(at, what)]

\* errors[:50] of the report of sync_exercises_from_wger
ErrorCap == 50

FirstErrors(errs) == SubSeq(errs, 1, Min(Len(errs), ErrorCap))

\* The loops of sync_exercises_from_wger over the muscles of one Wger exercise:
\* get the id of the muscle group of that name, or create the muscle group.
\* names are the values of muscles_map for the ids of the record, "" for an id
\* that muscles_map does not have.  v carries the locals and the table.
RECURSIVE GetOrCreateMuscleGroups(_, _, _, _)
GetOrCreateMuscleGroups(names, v, at, primary) ==
    IF names = <<>> THEN v
    ELSE LET muscle_name == Head(names)
             key == MapKey(muscle_name)
             w == IF muscle_name = ""
                  THEN IF primary
                       THEN [v EXCEPT !.errs = Append(@, Error(at, "muscle not in muscles map"))]
                       ELSE v
                  ELSE IF key \in DOMAIN v.map
                  THEN [v EXCEPT !.ids = IF v.map[key] \in Range(@) THEN @ ELSE Append(@, v.map[key])]
                  ELSE IF NameTaken(v.table, muscle_name)
                  THEN \* crud_muscle_groups.create raised in its commit, which rolls
                       \* the transaction back: error, continue
                       [v EXCEPT !.errs = Append(@, Error(at, "Failed to create muscle group"))]
                  ELSE [v EXCEPT !.table = @ \cup {[id |-> v.seq + 1, name |-> muscle_name]},
                                 !.seq = @ + 1,
                                 !.map = Put(@, key, v.seq + 1),
                                 !.created = @ + 1,
                                 !.ids = Append(@, v.seq + 1)]
         IN  GetOrCreateMuscleGroups(Tail(names), w, at, primary)

(***************************************************************************)
(* State.                                                                  *)
(***************************************************************************)
VARIABLES
    equipment,              \* table equipment: rows [id, name, description, enabled]
    equipment_seq,          \* last id handed out by equipment's id sequence
    exercises,              \* table exercise with its secondary associations: rows
                            \* [id, name, primary_muscle_group_ids, secondary_muscle_group_ids, enabled]
    exercise_seq,
    muscle_groups,          \* table muscle_group: rows [id, name]
    muscle_group_seq,
    op,                     \* the import / sync request in progress
    pc,                     \* its position: "idle", "fetch", "rows", "done"
    full_sync,
    pages,                  \* the external input: pages of records (a CSV is one page)
    page_no,                \* pages read so far
    idx,                    \* next record of the current page
    existing_map,           \* existing_equipment_map / existing_exercise_map
    muscle_group_name_map,
    muscle_groups_created,
    session_failed,         \* an UPDATE failed and its transaction was not rolled back
    created_count,
    updated_count,
    skipped_count,
    errors,
    report,                 \* the dict returned by the handler
    outcome,                \* what the last processed record was counted as
    start_equipment,        \* table equipment when the request started
    start_exercises,
    start_muscle_groups,
    rerun,                  \* the request repeats the previous one with the same input
    quiet,                  \* no other client wrote since the first of these runs started
    other_writes,           \* number of writes of other clients so far
    workouts,               \* table workout: rows [id, user_id, date]
    workout_seq,
    exercise_instances,     \* table exercise_instance: rows [id, workout_id, exercise_id, order]
    exercise_instance_seq,
    sets,                   \* table set: rows [id, exercise_instance_id, weight_value]
    set_seq,
    exercise_equipment,     \* table exercise_equipment: rows [id, exercise_id, equipment_id]
    exercise_equipment_seq,
    calls,                  \* the calls of crud_exercise_equipment in progress, by caller
    workout_sessions,       \* table workout_session: rows [id, user_id, notes, total_sets]
    workout_session_seq,
    exercise_entries,       \* table exercise_entry: rows [id, workout_session_id, exercise_id]
    exercise_entry_seq,
    set_entries,            \* table set_entry: rows [id, exercise_entry_id, weight_kg]
    set_entry_seq,
    programs,               \* table program: rows [id, user_id, days_per_week]
    program_seq,
    program_weeks,          \* table program_week: rows [id, program_id, week_number,
                            \* workout_template_id], workout_template_id 0 for none
    program_week_seq,
    scheduled_workouts,     \* table scheduled_workout: rows [id, user_id, workout_template_id,
                            \* scheduled_date, program_id, program_week, status]
    scheduled_workout_seq,
    response,               \* the last request to a CRUD endpoint and what it answered
    requests                \* number of requests to CRUD endpoints so far

equipmentVars == <<equipment, equipment_seq>>

exerciseVars == <<exercises, exercise_seq>>

muscleGroupVars == <<muscle_groups, muscle_group_seq>>

dbVars == <<equipmentVars, exerciseVars, muscleGroupVars>>

mapVars == <<existing_map, muscle_group_name_map>>

runVars == <<op, pc, full_sync, pages, page_no, idx, mapVars, muscle_groups_created, session_failed,
             created_count, updated_count, skipped_count, errors, report, outcome>>

histVars == <<start_equipment, start_exercises, start_muscle_groups, rerun, quiet, other_writes>>

workoutVars == <<workouts, workout_seq, exercise_instances, exercise_instance_seq, sets, set_seq>>

linkVars == <<exercise_equipment, exercise_equipment_seq, calls>>

sessionVars == <<workout_sessions, workout_session_seq, exercise_entries, exercise_entry_seq,
                 set_entries, set_entry_seq>>

scheduleVars == <<programs, program_seq, program_weeks, program_week_seq, scheduled_workouts,
                  scheduled_workout_seq>>

requestVars == <<workoutVars, linkVars, sessionVars, scheduleVars, response, requests>>

vars == <<dbVars, runVars, histVars, requestVars>>

NoReport ==
    [message |-> "none", created |-> 0, updated |-> 0, skipped |-> 0,
     muscle_groups_created |-> 0, errors |-> <<>>]

(***************************************************************************)
(* Inputs.                                                                 *)
(***************************************************************************)
EquipmentNames == {"Band", "band", "Bar"}

EquipmentRows ==
    {[name |-> n, description |-> c[1], enabled |-> c[2]] :
        n \in EquipmentNames \cup {" "},
        c \in {<<"", "true">>, <<"", "false">>, <<"d", "true">>}}

EquipmentCSVs == SeqsUpTo(EquipmentRows, MaxRows)

\* Contents of table equipment before the request: left by earlier requests.
SeedEquipment ==
    { {},
      {[id |-> 1, name |-> "Band", description |-> None, enabled |-> TRUE]},
      {[id |-> 1, name |-> "band", description |-> "d", enabled |-> FALSE]},
      {[id |-> 1, name |-> "Bar", description |-> None, enabled |-> TRUE],
       [id |-> 2, name |-> "band", description |-> None, enabled |-> TRUE]},
      {[id |-> 1, name |-> "Band", description |-> None, enabled |-> TRUE],
       [id |-> 2, name |-> "band", description |-> None, enabled |-> FALSE]} }

ExerciseNames == {"Squat", "squat", "Row"}

ExerciseRow(name, primary, secondary, enabled) ==
    [name |-> name, primary_muscle_groups |-> primary,
     secondary_muscle_groups |-> secondary, enabled |-> enabled]

ExerciseRows ==
    { ExerciseRow("Squat", <<"Chest">>, <<"Chest", "Lats">>, "true"),
      ExerciseRow("Squat", <<"Chest">>, <<"Lats", "Chest">>, "true"),
      ExerciseRow("Squat", <<"Chest">>, <<"Chest", "Lats">>, "false"),
      ExerciseRow("squat", <<"Lats">>, <<>>, "false"),
      ExerciseRow("Row", <<"Chest", "Lats">>, <<>>, "true"),
      ExerciseRow(" ", <<"Chest">>, <<>>, "true"),
      ExerciseRow("Row", <<" ">>, <<>>, "true"),
      ExerciseRow("Row", <<"Abs">>, <<>>, "true"),
      ExerciseRow("Row", <<"Chest", "Abs">>, <<"Abs">>, "true") }

ExerciseCSVs == SeqsUpTo(ExerciseRows, MaxRows)

SeedMuscleGroups == {[id |-> 1, name |-> "Chest"], [id |-> 2, name |-> "lats"]}

\* Contents of tables muscle_group and exercise before the request.
SeedExercises ==
    { [muscle_groups |-> {}, exercises |-> {}],
      [muscle_groups |-> SeedMuscleGroups, exercises |-> {}],
      [muscle_groups |-> SeedMuscleGroups,
       exercises |-> {NewExercise(1, "Squat", <<1>>, <<2, 1>>, TRUE)}],
      [muscle_groups |-> SeedMuscleGroups,
       exercises |-> {NewExercise(1, "squat", <<1>>, <<>>, TRUE)}],
      [muscle_groups |-> SeedMuscleGroups,
       exercises |-> {NewExercise(1, "Squat", <<1>>, <<2, 1>>, TRUE),
                      NewExercise(2, "squat", <<2>>, <<>>, FALSE)}],
      [muscle_groups |-> SeedMuscleGroups,
       exercises |-> {NewExercise(1, "Row", <<2, 1>>, <<>>, TRUE),
                      NewExercise(2, "Squat", <<1>>, <<1, 2>>, TRUE)}] }

\* the pages an external source can serve: one page, or two pages with results
Pagings(records) ==
    {<<p>> : p \in SeqsUpTo(records, MaxRows)}
    \cup {ps \in {<<p, q>> : p, q \in SeqsUpTo(records, MaxRows - 1)} :
            /\ ps[1] # <<>>
            /\ ps[2] # <<>>
            /\ Len(ps[1]) + Len(ps[2]) <= MaxRows}

WgerEquipment == {[name |-> n] : n \in EquipmentNames \cup {" "}}

WgerEquipmentPages == Pagings(WgerEquipment)

EquipmentOps == {"import_equipment", "sync_equipment_from_wger"}

WgerExercise(name, muscles, muscles_secondary) ==
    [name |-> name, muscles |-> muscles, muscles_secondary |-> muscles_secondary]

\* Wger exercises with their English name ("" when there is no translation)
\* and the names of their muscles
WgerExercises ==
    { WgerExercise("Squat", <<"Chest">>, <<"Chest", "Lats">>),
      WgerExercise("Squat", <<"Chest">>, <<"Lats", "Chest">>),
      WgerExercise("squat", <<"Lats">>, <<>>),
      WgerExercise("Row", <<"Abs">>, <<"Abs">>),
      WgerExercise("Row", <<"Chest", "Abs">>, <<>>),
      WgerExercise("", <<"Chest">>, <<>>),
      WgerExercise("Row", <<>>, <<>>),
      WgerExercise("Row", <<"">>, <<"">>) }

WgerExercisePages == Pagings(WgerExercises)

ExerciseOps == {"import_exercises", "sync_exercises_from_wger"}

\* The database before the request: the tables the request works on hold rows.
Seeds(request) ==
    IF request \in EquipmentOps
    THEN {[equipment |-> e, muscle_groups |-> {}, exercises |-> {}] : e \in SeedEquipment}
    ELSE {[equipment |-> {}, muscle_groups |-> x.muscle_groups, exercises |-> x.exercises] :
            x \in SeedExercises}

\* A request for one of the import / sync endpoints has arrived.
NoResponse == [handler |-> "none", user |-> 0, raised |-> "none"]

\* the clients whose calls of crud_exercise_equipment may interleave
MaxCallers == 2

Callers == 1..MaxCallers

\* a caller that has made no call yet
NoCall ==
    [call |-> "none", pc |-> "idle", exercise_id |-> 0, equipment_ids |-> <<>>,
     current |-> {}, todo |-> {}, at |-> 1, sub |-> "none", equipment_id |-> 0, found |-> 0,
     raised |-> "none", alone |-> TRUE, repeated |-> FALSE, before |-> {},
     linked |-> {}, unlinked |-> {}]

NoCalls == [c \in Callers |-> NoCall]

\* no workout is stored and no CRUD request was made
NoWorkouts ==
    /\ workouts = {}
    /\ workout_seq = 0
    /\ exercise_instances = {}
    /\ exercise_instance_seq = 0
    /\ sets = {}
    /\ set_seq = 0
    /\ exercise_equipment = {}
    /\ exercise_equipment_seq = 0
    /\ calls = NoCalls
    /\ workout_sessions = {}
    /\ workout_session_seq = 0
    /\ exercise_entries = {}
    /\ exercise_entry_seq = 0
    /\ set_entries = {}
    /\ set_entry_seq = 0
    /\ programs = {}
    /\ program_seq = 0
    /\ program_weeks = {}
    /\ program_week_seq = 0
    /\ scheduled_workouts = {}
    /\ scheduled_workout_seq = 0
    /\ response = NoResponse
    /\ requests = 0

Init ==
    /\ NoWorkouts
    /\ op \in EquipmentOps \cup ExerciseOps
    /\ \E seed \in Seeds(op) :
        /\ equipment = seed.equipment
        /\ exercises = seed.exercises
        /\ muscle_groups = seed.muscle_groups
    /\ equipment_seq = Cardinality(equipment)
    /\ exercise_seq = Cardinality(exercises)
    /\ muscle_group_seq = Cardinality(muscle_groups)
    /\ muscle_group_name_map = EmptyMap
    /\ muscle_groups_created = 0
    /\ session_failed = FALSE
    /\ start_exercises = exercises
    /\ start_muscle_groups = muscle_groups
    /\ pc = "idle"
    /\ full_sync = FALSE
    /\ pages = <<>>
    /\ page_no = 0
    /\ idx = 1
    /\ existing_map = EmptyMap
    /\ created_count = 0
    /\ updated_count = 0
    /\ skipped_count = 0
    /\ errors = <<>>
    /\ report = NoReport
    /\ outcome = "none"
    /\ start_equipment = equipment
    /\ rerun = FALSE
    /\ quiet = TRUE
    /\ other_writes = 0

\* the locals every handler initialises before its loop
ResetCounters ==
    /\ created_count' = 0
    /\ updated_count' = 0
    /\ skipped_count' = 0
    /\ errors' = <<>>
    /\ outcome' = "none"
    /\ muscle_groups_created' = 0
    /\ session_failed' = FALSE
    /\ start_equipment' = equipment
    /\ start_exercises' = exercises
    /\ start_muscle_groups' = muscle_groups

(***************************************************************************)
(* POST /equipment/import                                                  *)
(***************************************************************************)
BeginImportEquipment(csv, again) ==
    /\ op' = op
    /\ pc' = "rows"
    /\ full_sync' = FALSE
    /\ pages' = <<csv>>
    /\ page_no' = 1
    /\ idx' = 1
    /\ existing_map' \in EquipmentMaps(equipment)
    /\ muscle_group_name_map' = EmptyMap
    /\ ResetCounters
    /\ report' = NoReport
    /\ rerun' = again
    /\ quiet' = IF again THEN quiet ELSE TRUE
    /\ UNCHANGED <<dbVars, other_writes>>

StartImportEquipment ==
    /\ UNCHANGED requestVars
    /\ op = "import_equipment"
    /\ pc = "idle"
    /\ \E csv \in EquipmentCSVs : BeginImportEquipment(csv, FALSE)

\* the same file is uploaded again right after the previous import returned
RepeatImportEquipment ==
    /\ UNCHANGED requestVars
    /\ pc = "done"
    /\ op = "import_equipment"
    /\ ~rerun
    /\ BeginImportEquipment(pages[1], TRUE)

ImportEquipmentRow ==
    /\ UNCHANGED requestVars
    /\ op = "import_equipment"
    /\ pc = "rows"
    /\ idx <= Len(pages[page_no])
    /\ LET row == pages[page_no][idx]
           name == Strip(row.name)
           description == EquipmentDescription(row)
           enabled == EquipmentEnabled(row)
           key == MapKey(name)
       IN  IF name = ""
           THEN /\ skipped_count' = skipped_count + 1
                /\ outcome' = "skipped"
                /\ UNCHANGED <<equipmentVars, existing_map, created_count, updated_count>>
           ELSE IF key \in DOMAIN existing_map
           THEN LET existing == existing_map[key]
                    update_data == EquipmentUpdateData(existing, description, enabled)
                IN  IF update_data # {}
                    THEN /\ equipment' = UpdateEquipmentByName(equipment, existing.name,
                                                               update_data, description, enabled)
                         /\ updated_count' = updated_count + 1
                         /\ outcome' = "updated"
                         /\ UNCHANGED <<equipment_seq, existing_map, created_count, skipped_count>>
                    ELSE /\ skipped_count' = skipped_count + 1
                         /\ outcome' = "skipped"
                         /\ UNCHANGED <<equipmentVars, existing_map, created_count, updated_count>>
           ELSE IF NameTaken(equipment, name)
           THEN \* IntegrityError: rollback, "created by another process, skip"
                /\ skipped_count' = skipped_count + 1
                /\ outcome' = "skipped"
                /\ UNCHANGED <<equipmentVars, existing_map, created_count, updated_count>>
           ELSE /\ equipment_seq' = equipment_seq + 1
                /\ equipment' = equipment \cup
                      {[id |-> equipment_seq + 1, name |-> name,
                        description |-> description, enabled |-> enabled]}
                /\ created_count' = created_count + 1
                /\ existing_map' = Put(existing_map, key,
                      [name |-> name, description |-> description, enabled |-> enabled])
                /\ outcome' = "created"
                /\ UNCHANGED <<updated_count, skipped_count>>
    /\ idx' = idx + 1
    /\ UNCHANGED <<exerciseVars, muscleGroupVars, op, pc, full_sync, pages, page_no,
                   muscle_group_name_map, muscle_groups_created, session_failed,
                   errors, report, histVars>>

ReturnImportEquipment ==
    /\ UNCHANGED requestVars
    /\ op = "import_equipment"
    /\ pc = "rows"
    /\ idx > Len(pages[page_no])
    /\ pc' = "done"
    /\ report' = [message |-> "Import completed", created |-> created_count,
                  updated |-> updated_count, skipped |-> skipped_count,
                  muscle_groups_created |-> 0, errors |-> errors]
    /\ UNCHANGED <<dbVars, op, full_sync, pages, page_no, idx, mapVars,
                   muscle_groups_created, session_failed,
                   created_count, updated_count, skipped_count, errors, outcome, histVars>>

(***************************************************************************)
(* POST /equipment/sync-wger                                               *)
(***************************************************************************)
\* (faulty variant: full_sync keeps the rows of table equipment)
StartSyncEquipmentKeeps ==
    /\ UNCHANGED requestVars
    /\ op = "sync_equipment_from_wger"
    /\ pc = "idle"
    /\ \E ps \in WgerEquipmentPages, full \in BOOLEAN :
        /\ pages' = ps
        /\ full_sync' = full
        /\ equipment' = equipment
        /\ existing_map' \in EquipmentMaps(equipment)
    /\ pc' = "fetch"
    /\ page_no' = 0
    /\ idx' = 1
    /\ muscle_group_name_map' = EmptyMap
    /\ ResetCounters
    /\ report' = NoReport
    /\ rerun' = FALSE
    /\ quiet' = TRUE
    /\ UNCHANGED <<op, equipment_seq, exerciseVars, muscleGroupVars, other_writes>>

\* full_sync deletes every row of table equipment and commits before the
\* first page is requested
StartSyncEquipment ==
    /\ UNCHANGED requestVars
    /\ op = "sync_equipment_from_wger"
    /\ pc = "idle"
    /\ \E ps \in WgerEquipmentPages, full \in BOOLEAN :
        /\ pages' = ps
        /\ full_sync' = full
        /\ IF full
           THEN /\ equipment' = {}
                /\ existing_map' = EmptyMap
           ELSE /\ equipment' = equipment
                /\ existing_map' \in EquipmentMaps(equipment)
    /\ pc' = "fetch"
    /\ page_no' = 0
    /\ idx' = 1
    /\ muscle_group_name_map' = EmptyMap
    /\ ResetCounters
    /\ report' = NoReport
    /\ rerun' = FALSE
    /\ quiet' = TRUE
    /\ UNCHANGED <<op, equipment_seq, exerciseVars, muscleGroupVars, other_writes>>

\* (faulty variant: the report of a failed run starts from zero)
SyncReportZeros(message, errs) ==
    [message |-> message, created |-> 0, updated |-> 0, skipped |-> 0,
     muscle_groups_created |-> 0, errors |-> errs]

SyncReport(message, errs) ==
    [message |-> message, created |-> created_count, updated |-> updated_count,
     skipped |-> skipped_count, muscle_groups_created |-> muscle_groups_created, errors |-> errs]

\* client.get(equipment_next): the page, or an exception that ends the run
\* with the report of what was counted so far
FetchEquipmentPage ==
    /\ UNCHANGED requestVars
    /\ op = "sync_equipment_from_wger"
    /\ pc = "fetch"
    /\ \/ /\ pc' = "rows"
          /\ page_no' = page_no + 1
          /\ idx' = 1
          /\ report' = report
       \/ /\ pc' = "done"
          /\ report' = SyncReport("Failed to fetch equipment from Wger API", errors)
          /\ UNCHANGED <<page_no, idx>>
    /\ UNCHANGED <<dbVars, op, full_sync, pages, mapVars, muscle_groups_created, session_failed,
                   created_count, updated_count, skipped_count, errors, outcome, histVars>>

SyncEquipmentRecord ==
    /\ UNCHANGED requestVars
    /\ op = "sync_equipment_from_wger"
    /\ pc = "rows"
    /\ idx <= Len(pages[page_no])
    /\ LET equipment_name == Strip(pages[page_no][idx].name)
           key == MapKey(equipment_name)
       IN  IF equipment_name = ""
           THEN /\ outcome' = "none"
                /\ UNCHANGED <<equipmentVars, existing_map, created_count, skipped_count>>
           ELSE IF key \in DOMAIN existing_map \/ NameTaken(equipment, equipment_name)
           THEN \* already in the map, or IntegrityError on create and rollback
                /\ skipped_count' = skipped_count + 1
                /\ outcome' = "skipped"
                /\ UNCHANGED <<equipmentVars, existing_map, created_count>>
           ELSE /\ equipment_seq' = equipment_seq + 1
                /\ equipment' = equipment \cup
                      {[id |-> equipment_seq + 1, name |-> equipment_name,
                        description |-> None, enabled |-> TRUE]}
                /\ created_count' = created_count + 1
                /\ existing_map' = Put(existing_map, key,
                      [name |-> equipment_name, description |-> None, enabled |-> TRUE])
                /\ outcome' = "created"
                /\ UNCHANGED skipped_count
    /\ idx' = idx + 1
    /\ UNCHANGED <<exerciseVars, muscleGroupVars, op, pc, full_sync, pages, page_no,
                   muscle_group_name_map, muscle_groups_created, session_failed,
                   updated_count, errors, report, histVars>>

\* (faulty variant: the loop is left after the first page)
NextEquipmentPageStops ==
    /\ UNCHANGED requestVars
    /\ op = "sync_equipment_from_wger"
    /\ pc = "rows"
    /\ idx > Len(pages[page_no])
    /\ pc' = "done"
    /\ report' = SyncReport("Sync completed", errors)
    /\ UNCHANGED <<dbVars, op, full_sync, pages, page_no, idx, mapVars,
                   muscle_groups_created, session_failed,
                   created_count, updated_count, skipped_count, errors, outcome, histVars>>

\* equipment_next = equipment_data.get("next")
NextEquipmentPage ==
    /\ UNCHANGED requestVars
    /\ op = "sync_equipment_from_wger"
    /\ pc = "rows"
    /\ idx > Len(pages[page_no])
    /\ IF page_no < Len(pages)
       THEN /\ pc' = "fetch"
            /\ report' = report
       ELSE /\ pc' = "done"
            /\ report' = SyncReport("Sync completed", errors)
    /\ UNCHANGED <<dbVars, op, full_sync, pages, page_no, idx, mapVars,
                   muscle_groups_created, session_failed,
                   created_count, updated_count, skipped_count, errors, outcome, histVars>>

(***************************************************************************)
(* POST /exercises/import                                                  *)
(***************************************************************************)
BeginImportExercises(csv, again) ==
    /\ op' = op
    /\ pc' = "rows"
    /\ full_sync' = FALSE
    /\ pages' = <<csv>>
    /\ page_no' = 1
    /\ idx' = 1
    /\ existing_map' \in BuildMaps(exercises)
    /\ muscle_group_name_map' \in MuscleGroupNameMaps(muscle_groups)
    /\ ResetCounters
    /\ report' = NoReport
    /\ rerun' = again
    /\ quiet' = IF again THEN quiet ELSE TRUE
    /\ UNCHANGED <<dbVars, other_writes>>

StartImportExercises ==
    /\ UNCHANGED requestVars
    /\ op = "import_exercises"
    /\ pc = "idle"
    /\ \E csv \in ExerciseCSVs : BeginImportExercises(csv, FALSE)

RepeatImportExercises ==
    /\ UNCHANGED requestVars
    /\ pc = "done"
    /\ op = "import_exercises"
    /\ ~rerun
    /\ BeginImportExercises(pages[1], TRUE)

\* (faulty variant: the rejected row is counted as skipped as well)
ImportRowErrorCounted(errs, failed) ==
    /\ errors' = errs
    /\ session_failed' = failed
    /\ outcome' = "skipped"
    /\ skipped_count' = skipped_count + 1
    /\ UNCHANGED <<exerciseVars, created_count, updated_count>>

\* the record is not counted: errors.append(...) and on to the next row
ImportRowError(errs, failed) ==
    /\ errors' = errs
    /\ session_failed' = failed
    /\ outcome' = "none"
    /\ UNCHANGED <<exerciseVars, created_count, updated_count, skipped_count>>

ImportExercisesRow ==
    /\ UNCHANGED requestVars
    /\ op = "import_exercises"
    /\ pc = "rows"
    /\ idx <= Len(pages[page_no])
    /\ LET row == pages[page_no][idx]
           name == Strip(row.name)
           primary_names == CellNames(row.primary_muscle_groups)
           secondary_names == CellNames(row.secondary_muscle_groups)
           primary_ids == ResolveIds(primary_names, muscle_group_name_map, <<>>)
           secondary_ids == ResolveIds(secondary_names, muscle_group_name_map, <<>>)
           enabled == ExerciseEnabled(row)
           key == MapKey(name)
           not_found == errors
               \o ErrorsFor(idx, "primary not found", UnknownNames(primary_names, muscle_group_name_map))
               \o ErrorsFor(idx, "secondary not found", UnknownNames(secondary_names, muscle_group_name_map))
       IN  IF name = ""
           THEN ImportRowError(Append(errors, Error(idx, "name is required")), session_failed)
           ELSE IF primary_names = <<>>
           THEN ImportRowError(Append(errors, Error(idx, "primary is required")), session_failed)
           ELSE IF key \in DOMAIN existing_map
           THEN LET existing == existing_map[key]
                    nulls == UpdateNulls(existing, name, primary_ids, enabled, ImportUpdateColumns)
                    secondary_changed ==
                        IdSet(existing.secondary_muscle_group_ids) # IdSet(secondary_ids)
                IN  IF ~ImportNeedsUpdate(existing, name, primary_ids, secondary_ids, enabled)
                    THEN /\ skipped_count' = skipped_count + 1
                         /\ errors' = not_found
                         /\ outcome' = "skipped"
                         /\ UNCHANGED <<exerciseVars, created_count, updated_count, session_failed>>
                    ELSE IF "primary_muscle_group_ids" \notin nulls /\ ~PrimaryIdsValid(primary_ids)
                    THEN ImportRowError(Append(not_found, Error(idx, "ValidationError")), session_failed)
                    ELSE IF session_failed
                    THEN ImportRowError(Append(not_found, Error(idx, "InFailedSQLTransaction")), TRUE)
                    ELSE IF UpdateExerciseResult(exercises, existing.id, nulls, name) # "ok"
                    THEN ImportRowError(Append(not_found, Error(idx, "IntegrityError")), TRUE)
                    ELSE /\ exercises' = UpdateExerciseRows(exercises, existing.id, ImportUpdateColumns,
                                            name, primary_ids, enabled, secondary_changed, secondary_ids)
                         /\ updated_count' = updated_count + 1
                         /\ errors' = not_found
                         /\ outcome' = "updated"
                         /\ UNCHANGED <<exercise_seq, created_count, skipped_count, session_failed>>
           ELSE IF ~PrimaryIdsValid(primary_ids)
           THEN ImportRowError(Append(not_found, Error(idx, "ValidationError")), session_failed)
           ELSE IF session_failed
           THEN \* the INSERT fails in the aborted transaction; the failed commit of
                \* crud_exercises.create rolls the transaction back
                ImportRowError(Append(not_found, Error(idx, "InFailedSQLTransaction")), FALSE)
           ELSE IF NameTaken(exercises, name)
           THEN ImportRowError(Append(not_found, Error(idx, "IntegrityError")), FALSE)
           ELSE /\ exercise_seq' = exercise_seq + 1
                /\ exercises' = exercises \cup
                      {NewExercise(exercise_seq + 1, name, primary_ids, secondary_ids, enabled)}
                /\ created_count' = created_count + 1
                /\ errors' = not_found
                /\ outcome' = "created"
                /\ UNCHANGED <<updated_count, skipped_count, session_failed>>
    /\ idx' = idx + 1
    /\ UNCHANGED <<equipmentVars, muscleGroupVars, op, pc, full_sync, pages, page_no,
                   mapVars, muscle_groups_created, report, histVars>>

\* await db.commit() after the loop, which also ends a transaction that a
\* failed UPDATE had left aborted, then the report
ReturnImportExercises ==
    /\ UNCHANGED requestVars
    /\ op = "import_exercises"
    /\ pc = "rows"
    /\ idx > Len(pages[page_no])
    /\ pc' = "done"
    /\ session_failed' = FALSE
    /\ report' = [message |-> "Import completed", created |-> created_count,
                  updated |-> updated_count, skipped |-> skipped_count,
                  muscle_groups_created |-> 0, errors |-> errors]
    /\ UNCHANGED <<dbVars, op, full_sync, pages, page_no, idx, mapVars,
                   muscle_groups_created,
                   created_count, updated_count, skipped_count, errors, outcome, histVars>>

(***************************************************************************)
(* POST /exercises/sync-wger                                               *)
(***************************************************************************)
\* Up to the first request for a page of exercises: the muscles are fetched
\* (a failure returns at once), muscle_group_name_map is built, and with
\* full_sync every exercise is deleted and the delete is committed.
BeginSyncExercises(ps, full, muscles_fetched) ==
    /\ full_sync' = full
    /\ IF ~muscles_fetched
       THEN /\ pc' = "done"
            /\ pages' = <<>>
            /\ report' = [NoReport EXCEPT !.message = "Failed to fetch muscles from Wger API"]
            /\ UNCHANGED <<exercises, mapVars>>
       ELSE /\ pc' = "fetch"
            /\ pages' = ps
            /\ report' = NoReport
            /\ muscle_group_name_map' \in MuscleGroupNameMaps(muscle_groups)
            /\ IF full
               THEN /\ exercises' = DeleteExercises(exercises, {e.id : e \in exercises})
                    /\ existing_map' = EmptyMap
               ELSE /\ exercises' = exercises
                    /\ existing_map' \in BuildMaps(exercises)
    /\ page_no' = 0
    /\ idx' = 1
    /\ ResetCounters
    /\ rerun' = FALSE
    /\ quiet' = TRUE
    /\ UNCHANGED <<op, exercise_seq, equipmentVars, muscleGroupVars, other_writes>>

StartSyncExercises ==
    /\ UNCHANGED requestVars
    /\ op = "sync_exercises_from_wger"
    /\ pc = "idle"
    /\ \E ps \in WgerExercisePages, full \in BOOLEAN, muscles_fetched \in BOOLEAN :
        BeginSyncExercises(ps, full, muscles_fetched)

\* client.get(exercises_next): the page, or an exception: rollback, one error,
\* break, the final commit and the report
FetchExercisesPage ==
    /\ UNCHANGED requestVars
    /\ op = "sync_exercises_from_wger"
    /\ pc = "fetch"
    /\ \/ /\ pc' = "rows"
          /\ page_no' = page_no + 1
          /\ idx' = 1
          /\ UNCHANGED <<errors, report, session_failed>>
       \/ /\ pc' = "done"
          /\ session_failed' = FALSE
          /\ errors' = Append(errors, Error(0, "Failed to fetch exercises from Wger API"))
          /\ report' = SyncReport("Wger sync completed", FirstErrors(errors'))
          /\ UNCHANGED <<page_no, idx>>
    /\ UNCHANGED <<dbVars, op, full_sync, pages, mapVars, muscle_groups_created,
                   created_count, updated_count, skipped_count, outcome, histVars>>

\* the record is not counted: an error, and a rollback where the handler has one
SyncRecordError(errs, failed) ==
    /\ errors' = errs
    /\ session_failed' = failed
    /\ outcome' = "none"
    /\ UNCHANGED <<exerciseVars, created_count, updated_count, skipped_count, histVars>>

SyncExercisesRecord ==
    /\ UNCHANGED requestVars
    /\ op = "sync_exercises_from_wger"
    /\ pc = "rows"
    /\ idx <= Len(pages[page_no])
    /\ LET rec == pages[page_no][idx]
           exercise_name == rec.name
           v0 == [ids |-> <<>>, map |-> muscle_group_name_map, table |-> muscle_groups,
                  seq |-> muscle_group_seq, created |-> muscle_groups_created,
                  errs |-> errors]
           vp == GetOrCreateMuscleGroups(rec.muscles, v0, idx, TRUE)
           vs == GetOrCreateMuscleGroups(rec.muscles_secondary, [vp EXCEPT !.ids = <<>>], idx, FALSE)
           primary_mg_ids == vp.ids
           secondary_mg_ids == vs.ids
           key == MapKey(exercise_name)
           in_map == key \in DOMAIN existing_map
           existing_check == GetByName(exercises, exercise_name)
       IN  IF exercise_name = ""
           THEN /\ SyncRecordError(Append(errors, Error(idx, "No name found in translations")),
                                   session_failed)
                /\ UNCHANGED <<muscleGroupVars, mapVars, muscle_groups_created>>
           ELSE IF rec.muscles = <<>>
           THEN /\ SyncRecordError(Append(errors, Error(idx, "No primary muscles found")),
                                   session_failed)
                /\ UNCHANGED <<muscleGroupVars, mapVars, muscle_groups_created>>
           ELSE
           /\ muscle_groups' = vs.table
           /\ muscle_group_seq' = vs.seq
           /\ muscle_group_name_map' = vs.map
           /\ muscle_groups_created' = vs.created
           /\ IF in_map \/ existing_check # {}
              THEN LET existing_exercise ==
                           IF in_map THEN existing_map[key] ELSE CHOOSE e \in existing_check : TRUE
                       nulls == UpdateNulls(existing_exercise, exercise_name, primary_mg_ids,
                                            TRUE, SyncUpdateColumns)
                       secondary_changed ==
                           IdSet(existing_exercise.secondary_muscle_group_ids) # IdSet(secondary_mg_ids)
                   IN  /\ existing_map' = Put(existing_map, key, existing_exercise)
                       /\ IF ~SyncNeedsUpdate(existing_exercise, exercise_name,
                                              primary_mg_ids, secondary_mg_ids)
                          THEN /\ skipped_count' = skipped_count + 1
                               /\ errors' = vs.errs
                               /\ session_failed' = FALSE
                               /\ outcome' = "skipped"
                               /\ UNCHANGED <<exerciseVars, created_count, updated_count, histVars>>
                          ELSE IF \/ "primary_muscle_group_ids" \notin nulls
                                     /\ ~PrimaryIdsValid(primary_mg_ids)
                                  \/ UpdateExerciseResult(exercises, existing_exercise.id,
                                                          nulls, exercise_name) # "ok"
                          THEN SyncRecordError(Append(vs.errs, Error(idx, "Failed to update")), FALSE)
                          ELSE /\ exercises' = UpdateExerciseRows(exercises, existing_exercise.id,
                                                  SyncUpdateColumns, exercise_name, primary_mg_ids,
                                                  TRUE, secondary_changed, secondary_mg_ids)
                               /\ updated_count' = updated_count + 1
                               /\ errors' = vs.errs
                               /\ session_failed' = FALSE
                               /\ outcome' = "updated"
                               /\ UNCHANGED <<exercise_seq, created_count, skipped_count, histVars>>
              ELSE IF ~PrimaryIdsValid(primary_mg_ids)
              THEN /\ SyncRecordError(Append(vs.errs, Error(idx, "Failed to create")), FALSE)
                   /\ UNCHANGED existing_map
              ELSE LET created == NewExercise(exercise_seq + 1, exercise_name,
                                              primary_mg_ids, secondary_mg_ids, TRUE)
                   IN  \/ /\ exercises' = exercises \cup {created}
                          /\ exercise_seq' = exercise_seq + 1
                          /\ existing_map' = Put(existing_map, key, created)
                          /\ created_count' = created_count + 1
                          /\ outcome' = "created"
                          /\ UNCHANGED <<updated_count, skipped_count, histVars>>
                       \/ \* another client inserts the name between the lookup and the
                          \* insert: IntegrityError, rollback, found on re-query, skipped
                          /\ other_writes < MaxOtherWrites
                          /\ \E mg \in vs.table :
                               LET theirs == NewExercise(exercise_seq + 1, exercise_name,
                                                         <<mg.id>>, <<>>, TRUE)
                               IN  /\ exercises' = exercises \cup {theirs}
                                   /\ existing_map' = Put(existing_map, key, theirs)
                          /\ exercise_seq' = exercise_seq + 1
                          /\ skipped_count' = skipped_count + 1
                          /\ outcome' = "skipped"
                          /\ quiet' = FALSE
                          /\ other_writes' = other_writes + 1
                          /\ UNCHANGED <<created_count, updated_count, start_equipment,
                                         start_exercises, start_muscle_groups, rerun>>
                   /\ errors' = vs.errs
                   /\ session_failed' = FALSE
    /\ idx' = idx + 1
    /\ UNCHANGED <<equipmentVars, op, pc, full_sync, pages, page_no, report>>

\* exercises_next = exercises_data.get("next"); after the last page the final
\* commit (rolled back and reported when it fails) and the report
NextExercisesPage ==
    /\ UNCHANGED requestVars
    /\ op = "sync_exercises_from_wger"
    /\ pc = "rows"
    /\ idx > Len(pages[page_no])
    /\ IF page_no < Len(pages)
       THEN /\ pc' = "fetch"
            /\ UNCHANGED <<errors, report, session_failed>>
       ELSE /\ pc' = "done"
            /\ session_failed' = FALSE
            /\ errors' = IF session_failed
                         THEN Append(errors, Error(0, "Failed to commit final changes"))
                         ELSE errors
            /\ report' = SyncReport("Wger sync completed", FirstErrors(errors'))
    /\ UNCHANGED <<dbVars, op, full_sync, pages, page_no, idx, mapVars, muscle_groups_created,
                   created_count, updated_count, skipped_count, outcome, histVars>>

(***************************************************************************)
(* POST /exercise of another client, between two steps of the run.         *)
(***************************************************************************)
CreateExercise ==
    /\ UNCHANGED requestVars
    /\ op \in ExerciseOps
    /\ other_writes < MaxOtherWrites
    /\ \E name \in ExerciseNames, mg \in muscle_groups :
        /\ ~NameTaken(exercises, name)
        /\ exercises' = exercises \cup {NewExercise(exercise_seq + 1, name, <<mg.id>>, <<>>, TRUE)}
    /\ exercise_seq' = exercise_seq + 1
    /\ quiet' = FALSE
    /\ other_writes' = other_writes + 1
    /\ UNCHANGED <<equipmentVars, muscleGroupVars, runVars,
                   start_equipment, start_exercises, start_muscle_groups, rerun>>

(***************************************************************************)
(* POST /equipment of another client, between two steps of the run.        *)
(***************************************************************************)
CreateEquipment ==
    /\ UNCHANGED requestVars
    /\ op \in EquipmentOps
    /\ other_writes < MaxOtherWrites
    /\ \E name \in EquipmentNames, enabled \in BOOLEAN :
        /\ ~NameTaken(equipment, name)
        /\ equipment' = equipment \cup
              {[id |-> equipment_seq + 1, name |-> name, description |-> None, enabled |-> enabled]}
    /\ equipment_seq' = equipment_seq + 1
    /\ quiet' = FALSE
    /\ other_writes' = other_writes + 1
    /\ UNCHANGED <<exerciseVars, muscleGroupVars, runVars,
                   start_equipment, start_exercises, start_muscle_groups, rerun>>

Next ==
    \/ StartImportEquipment
    \/ RepeatImportEquipment
    \/ ImportEquipmentRow
    \/ ReturnImportEquipment
    \/ StartSyncEquipment
    \/ FetchEquipmentPage
    \/ SyncEquipmentRecord
    \/ NextEquipmentPage
    \/ StartImportExercises
    \/ RepeatImportExercises
    \/ ImportExercisesRow
    \/ ReturnImportExercises
    \/ StartSyncExercises
    \/ FetchExercisesPage
    \/ SyncExercisesRecord
    \/ NextExercisesPage
    \/ CreateEquipment
    \/ CreateExercise

Spec == Init /\ [][Next]_vars

(***************************************************************************)
(* Vocabulary of the properties.                                           *)
(***************************************************************************)
ImportOps == {"import_equipment", "import_exercises"}

\* the table of the kind the request reconciles, now and when it started
Table == IF op \in EquipmentOps THEN equipment ELSE exercises

StartTable == IF op \in EquipmentOps THEN start_equipment ELSE start_exercises

\* no two entities whose names are equal up to letter case
NoCaseTwins(table) == \A a, b \in table : Lower(a.name) = Lower(b.name) => a = b

\* no two rows of the file whose names are equal up to letter case
DistinctNames(csv) ==
    \A i, j \in DOMAIN csv : Lower(Strip(csv[i].name)) = Lower(Strip(csv[j].name)) => i = j

\* the rows of the file for which the report has an error
RowsInError == {report.errors[j].at : j \in DOMAIN report.errors}

StoreUnchanged ==
    /\ equipment = start_equipment
    /\ exercises = start_exercises
    /\ muscle_groups = start_muscle_groups

\* the second of two imports of the same file has returned, and no other
\* client wrote since the first one started
SecondRunReturned == op \in ImportOps /\ pc = "done" /\ rerun /\ quiet

(***************************************************************************)
(* C1  Idempotence of import.                                              *)
(***************************************************************************)
\* C1 as stated: the second of two successive imports of the same CSV, with
\* no other writer in between, reports created = 0 and updated = 0, counts
\* every row as skipped and leaves the store unchanged.
C1_AsStated ==
    SecondRunReturned =>
        /\ report.created = 0
        /\ report.updated = 0
        /\ report.skipped = Len(pages[1])
        /\ StoreUnchanged

\* C1 (amended): when no two rows of the CSV and no two stored entities of
\* the kind have names equal up to letter case, the second of two successive
\* imports of the same CSV, with no other writer during or between them,
\* reports created = 0 and updated = 0, counts every row that it does not
\* report in errors as skipped, and leaves the store unchanged.
C1_Idempotence ==
    (SecondRunReturned /\ DistinctNames(pages[1]) /\ NoCaseTwins(StartTable)) =>
        /\ report.created = 0
        /\ report.updated = 0
        /\ report.skipped >= Len(pages[1]) - Cardinality(RowsInError)
        /\ StoreUnchanged

\* a second import of two rows, the first run having created an exercise
C1_Witness ==
    /\ SecondRunReturned
    /\ op = "import_exercises"
    /\ DistinctNames(pages[1])
    /\ NoCaseTwins(StartTable)
    /\ Len(pages[1]) = 2
    /\ report.skipped = 2
    /\ Cardinality(exercises) = 2

(***************************************************************************)
(* C9  Set-equality semantics of the reference lists.                      *)
(***************************************************************************)
\* the candidate of the record that is processed next, with the exercise it
\* is matched to, for import_exercises and sync_exercises_from_wger
CandidateName == Strip(pages[page_no][idx].name)

CandidatePrimaryIds ==
    IF op = "import_exercises"
    THEN ResolveIds(CellNames(pages[page_no][idx].primary_muscle_groups), muscle_group_name_map, <<>>)
    ELSE ResolveIds(pages[page_no][idx].muscles, muscle_group_name_map, <<>>)

CandidateSecondaryIds ==
    IF op = "import_exercises"
    THEN ResolveIds(CellNames(pages[page_no][idx].secondary_muscle_groups), muscle_group_name_map, <<>>)
    ELSE ResolveIds(pages[page_no][idx].muscles_secondary, muscle_group_name_map, <<>>)

SameIds(a, b) == Range(a) = Range(b)

\* every muscle of the record has a stored muscle group, so that the sync
\* creates none and the candidate's ids are those of stored muscle groups
MusclesStored(names) ==
    \A i \in DOMAIN names : names[i] # "" => MapKey(names[i]) \in DOMAIN muscle_group_name_map

\* the next record is matched to a stored exercise that has the same name,
\* the same primary and secondary ids in some order and, for the import, the
\* same enabled flag
MatchedWithoutChange ==
    /\ op \in ExerciseOps
    /\ pc = "rows"
    /\ idx <= Len(pages[page_no])
    /\ CandidateName # ""
    /\ CandidatePrimaryIds # <<>>
    /\ MapKey(CandidateName) \in DOMAIN existing_map
    /\ LET existing == existing_map[MapKey(CandidateName)]
       IN  /\ existing.name = CandidateName
           /\ SameIds(existing.primary_muscle_group_ids, CandidatePrimaryIds)
           /\ SameIds(existing.secondary_muscle_group_ids, CandidateSecondaryIds)
           /\ op = "import_exercises" => existing.enabled = ExerciseEnabled(pages[page_no][idx])
           /\ op = "sync_exercises_from_wger" =>
                 /\ MusclesStored(pages[page_no][idx].muscles)
                 /\ MusclesStored(pages[page_no][idx].muscles_secondary)

BandExampleReturned ==
    /\ op = "import_equipment"
    /\ pc = "done"
    /\ ~rerun
    /\ quiet
    /\ start_equipment = {}
    /\ Len(pages[1]) = 2
    /\ pages[1][1].name = "Band" /\ pages[1][1].enabled = "true"
    /\ pages[1][2].name = "band" /\ pages[1][2].enabled = "false"

\* C10: import_equipment on an empty store with rows (Band, true) then
\* (band, false) reports created = 1, updated = 1, skipped = 0 and no errors,
\* and the store ends with exactly one equipment, "Band", with enabled = false.
C10_BandExample ==
    BandExampleReturned =>
        /\ report.created = 1
        /\ report.updated = 1
        /\ report.skipped = 0
        /\ report.errors = <<>>
        /\ Cardinality(equipment) = 1
        /\ \A e \in equipment : e.name = "Band" /\ e.enabled = FALSE

C10_Witness == BandExampleReturned /\ Cardinality(equipment) = 1

(***************************************************************************)
(* C2  Case-insensitive identity.                                          *)
(***************************************************************************)
StartIds == {e.id : e \in StartTable}

\* the entities the run (or, when not quiet, another client) created
CreatedRows == {e \in Table : e.id \notin StartIds}

\* the request has returned and no other client wrote since it started
RunReturned == pc = "done" /\ quiet

\* C2 as stated: a record whose name equals a stored entity's name up to
\* letter case is matched to it and no entity is created for it; hence a
\* store without two names equal up to letter case has none after the run.
C2_AsStated ==
    RunReturned =>
        /\ ~full_sync =>
              \A e \in CreatedRows : \A f \in StartTable : Lower(e.name) # Lower(f.name)
        /\ NoCaseTwins(StartTable) => NoCaseTwins(Table)

(***************************************************************************)
(* C4  At most one create per name per run.                                *)
(***************************************************************************)
\* rows i < j of the file have names equal up to letter case, and no entity
\* of that name was stored when the import started
LaterTwin(i, j) ==
    /\ i < j
    /\ Strip(pages[1][i].name) # ""
    /\ Lower(Strip(pages[1][i].name)) = Lower(Strip(pages[1][j].name))
    /\ \A f \in StartTable : Lower(f.name) # Lower(Strip(pages[1][j].name))

DuplicateKeyErrorAt(j) ==
    \E x \in DOMAIN report.errors :
        report.errors[x].at = j /\ report.errors[x].what = "IntegrityError"

\* C4 as stated: of two records of one run whose names are equal up to letter
\* case, no entity of the name being stored before, exactly one is a create;
\* the later one is never a second create and never an error.
C4_AsStated ==
    RunReturned =>
        /\ \A a, b \in CreatedRows : Lower(a.name) = Lower(b.name) => a = b
        /\ op \in ImportOps =>
              \A i, j \in DOMAIN pages[1] : LaterTwin(i, j) => ~DuplicateKeyErrorAt(j)

(***************************************************************************)
(* C5  Duplicate-key race.                                                 *)
(***************************************************************************)
\* The next record names an entity that another client created after the
\* run had built its map; nothing else keeps the record from being created.
RaceLost ==
    /\ op \in {"import_equipment", "sync_equipment_from_wger", "import_exercises"}
    /\ pc = "rows"
    /\ idx <= Len(pages[page_no])
    /\ CandidateName # ""
    /\ MapKey(CandidateName) \notin DOMAIN existing_map
    /\ NameTaken(Table, CandidateName)
    /\ op = "import_exercises" =>
          LET row == pages[page_no][idx]
          IN  /\ CellNames(row.primary_muscle_groups) # <<>>
              /\ UnknownNames(CellNames(row.primary_muscle_groups), muscle_group_name_map) = <<>>
              /\ UnknownNames(CellNames(row.secondary_muscle_groups), muscle_group_name_map) = <<>>
              /\ ~session_failed

\* C5 as stated: the run that lost the race for a name counts the record as
\* skipped, records no error for it and goes on; one entity has the name.
C5_AsStated ==
    [][(RaceLost /\ idx' = idx + 1) =>
            /\ outcome' = "skipped"
            /\ skipped_count' = skipped_count + 1
            /\ errors' = errors
            /\ Cardinality(GetByName(Table', CandidateName)) = 1]_vars

(***************************************************************************)
(* C7  Full-resync exclusivity.                                            *)
(***************************************************************************)
FullSyncReturned == op = "sync_exercises_from_wger" /\ pc = "done" /\ full_sync

OldExercisesGone == \A e \in exercises : \A f \in start_exercises : e.id # f.id

MuscleGroupsKept == start_muscle_groups \subseteq muscle_groups

ReferencedMuscles ==
    IF op = "import_exercises"
    THEN CellNames(pages[page_no][idx].primary_muscle_groups)
            \o CellNames(pages[page_no][idx].secondary_muscle_groups)
    ELSE SelectSeq(pages[page_no][idx].muscles \o pages[page_no][idx].muscles_secondary,
                   LAMBDA n : n # "")

\* the next record gets as far as the resolution of its references
ResolvesReferences ==
    /\ op \in ExerciseOps
    /\ pc = "rows"
    /\ idx <= Len(pages[page_no])
    /\ CandidateName # ""
    /\ IF op = "import_exercises"
       THEN CellNames(pages[page_no][idx].primary_muscle_groups) # <<>>
       ELSE pages[page_no][idx].muscles # <<>>

\* C8 as stated: a muscle-group name that matches no stored muscle group is
\* created, once, and counted once; afterwards the name is stored, and no
\* second muscle group of the name is ever created.
C8_AsStated ==
    [][(ResolvesReferences /\ idx' = idx + 1) =>
            /\ \A i \in DOMAIN ReferencedMuscles :
                  \E mg \in muscle_groups' : Lower(mg.name) = Lower(ReferencedMuscles[i])
            /\ Cardinality(muscle_groups') - Cardinality(muscle_groups)
                  = muscle_groups_created' - muscle_groups_created
            /\ NoCaseTwins(muscle_groups) => NoCaseTwins(muscle_groups')]_vars

(***************************************************************************)
(* C3  Partial-failure isolation.                                          *)
(***************************************************************************)
\* a row without a name or, for import_exercises, without a primary muscle group
BlankRow(row) ==
    \/ Strip(row.name) = ""
    \/ op = "import_exercises" /\ CellNames(row.primary_muscle_groups) = <<>>

\* a malformed row in the sense of the claim: blank name, missing or unknown
\* required reference
MalformedRow(row) ==
    \/ BlankRow(row)
    \/ op = "import_exercises"
          /\ UnknownNames(CellNames(row.primary_muscle_groups), muscle_group_name_map) # <<>>

ErrorsAt(k) == {j \in DOMAIN report.errors : report.errors[j].at = k}

Counted == report.created + report.updated + report.skipped

BlankRowsReported ==
    (op \in ImportOps /\ pc = "done") =>
        LET blank == {k \in DOMAIN pages[1] : BlankRow(pages[1][k])}
        IN  IF op = "import_exercises"
            THEN /\ \A k \in blank : Cardinality(ErrorsAt(k)) = 1
                 /\ Counted <= Len(pages[1]) - Cardinality(blank)
            ELSE /\ report.errors = <<>>
                 /\ Counted = Len(pages[1])

\* the step that processes a blank row changes the error list or the skipped
\* count and nothing that a later row reads
BlankRowStep ==
    (/\ op \in ImportOps
     /\ pc = "rows"
     /\ idx <= Len(pages[1])
     /\ BlankRow(pages[1][idx])
     /\ idx' = idx + 1)
    => /\ UNCHANGED <<dbVars, mapVars, session_failed, created_count, updated_count>>
       /\ IF op = "import_exercises"
          THEN /\ Len(errors') = Len(errors) + 1
               /\ SubSeq(errors', 1, Len(errors)) = errors
               /\ errors'[Len(errors')].at = idx
               /\ skipped_count' = skipped_count
          ELSE /\ errors' = errors
               /\ skipped_count' = skipped_count + 1

ExtraErrors == 2

LongLengths == (ErrorCap - 1)..(ErrorCap + ExtraErrors)

\* CSV files of which every row lacks its name
LongExerciseCSVs ==
    {[i \in 1..n |-> ExerciseRow(" ", <<"Chest">>, <<>>, "true")] : n \in LongLengths}

\* one page of Wger exercises that have no English name
LongWgerExercisePages ==
    {<<[i \in 1..n |-> WgerExercise("", <<"Chest">>, <<>>)]>> : n \in LongLengths}

StartLongImportExercises ==
    /\ UNCHANGED requestVars
    /\ op = "import_exercises"
    /\ pc = "idle"
    /\ \E csv \in LongExerciseCSVs : BeginImportExercises(csv, FALSE)

StartLongSyncExercises ==
    /\ UNCHANGED requestVars
    /\ op = "sync_exercises_from_wger"
    /\ pc = "idle"
    /\ \E ps \in LongWgerExercisePages, full \in BOOLEAN : BeginSyncExercises(ps, full, TRUE)

InitLong == Init /\ op \in ExerciseOps

NextLong ==
    \/ StartLongImportExercises
    \/ ImportExercisesRow
    \/ ReturnImportExercises
    \/ StartLongSyncExercises
    \/ FetchExercisesPage
    \/ SyncExercisesRecord
    \/ NextExercisesPage

SpecLong == InitLong /\ [][NextLong]_vars

\* C6 as stated: the errors list of the report of every import and sync
\* endpoint has at most 50 entries, however many records errored.
C6_AsStated == pc = "done" => Len(report.errors) <= ErrorCap

(***************************************************************************)
(* C11  Failure to fetch a page of the source.                             *)
(***************************************************************************)
SyncOps == {"sync_equipment_from_wger", "sync_exercises_from_wger"}

\* the errors of the records, without the entry of the failed fetch itself
RecordErrors(errs) == SelectSeq(errs, LAMBDA e : e.at # 0)

\* the request for a page fails after at least one page was processed
FetchFails == op \in SyncOps /\ pc = "fetch" /\ page_no >= 1 /\ pc' = "done"

\* C11: when fetching a page fails after some pages were processed, the sync
\* does not raise: it fetches no further page and returns a report whose
\* counters and errors are those of the records processed before the
\* failure, and what those records wrote stays in the store.
C11_FetchFailure ==
    [][FetchFails =>
            /\ report'.created = created_count
            /\ report'.updated = updated_count
            /\ report'.skipped = skipped_count
            /\ RecordErrors(report'.errors) = FirstErrors(RecordErrors(errors))
            /\ page_no' = page_no
            /\ UNCHANGED dbVars]_vars

\* the second page of a sync could not be fetched; the first had created an entity
C11_Witness ==
    /\ op \in SyncOps
    /\ pc = "done"
    /\ Len(pages) = 2
    /\ page_no = 1
    /\ report.created = 1
    /\ Cardinality(CreatedRows) = 1

(***************************************************************************)
(* C12  A CSV import deletes nothing.                                      *)
(***************************************************************************)
\* C12: after import_equipment or import_exercises every equipment /
\* exercise id that existed before the call still exists, whatever the CSV
\* contains.
C12_ImportNeverDeletes ==
    (op \in ImportOps /\ pc \in {"rows", "done"}) =>
        \A e \in StartTable : \E f \in Table : f.id = e.id

\* an import of a file that names none of the two stored entities has returned
C12_Witness ==
    /\ op \in ImportOps
    /\ pc = "done"
    /\ Cardinality(StartTable) = 2
    /\ \A i \in DOMAIN pages[1] : \A e \in StartTable : Lower(Strip(pages[1][i].name)) # Lower(e.name)
    /\ Cardinality(Table) >= 2

(***************************************************************************)
(* C16  One terminal state per record.                                     *)
(***************************************************************************)
\* a record of the input is processed by this step
RecordStep == pc = "rows" /\ idx <= Len(pages[page_no]) /\ idx' = idx + 1

\* C16 as stated: every record read by an import / sync run ends in exactly
\* one of CREATED, UPDATED, SKIPPED, ERRORED: it raises exactly one of the
\* three counters or it is reported in errors, not both and not neither.
C16_AsStated ==
    [][RecordStep =>
            (created_count' - created_count) + (updated_count' - updated_count)
                + (skipped_count' - skipped_count)
                + (IF Len(errors') > Len(errors) THEN 1 ELSE 0) = 1]_vars

(***************************************************************************)
(* C17  An UPDATE writes only the changed fields.                          *)
(***************************************************************************)
\* the stored row that the next record of an import is matched to
MatchedRow == {e \in Table : e.name = existing_map[MapKey(CandidateName)].name}

\* The next record of an import is matched to a stored entity of which the
\* map holds the stored values, and differs from it in some but not all of
\* the compared fields; nothing else stands in the way of the update.
PartlyDiffers ==
    /\ op \in ImportOps
    /\ pc = "rows"
    /\ idx <= Len(pages[page_no])
    /\ CandidateName # ""
    /\ MapKey(CandidateName) \in DOMAIN existing_map
    /\ LET row == pages[page_no][idx]
           existing == existing_map[MapKey(CandidateName)]
       IN  IF op = "import_equipment"
           THEN /\ \E e \in equipment : EquipmentSnapshot(e) = existing
                /\ Cardinality(EquipmentUpdateData(existing, EquipmentDescription(row),
                                                   EquipmentEnabled(row))) = 1
           ELSE /\ existing \in exercises
                /\ ~session_failed
                /\ CandidatePrimaryIds # <<>>
                /\ ~\E e \in exercises : e.name = CandidateName /\ e.id # existing.id
                /\ ImportNeedsUpdate(existing, CandidateName, CandidatePrimaryIds,
                                     CandidateSecondaryIds, ExerciseEnabled(row))
                /\ \/ existing.name = CandidateName
                   \/ SameIds(existing.primary_muscle_group_ids, CandidatePrimaryIds)
                   \/ SameIds(existing.secondary_muscle_group_ids, CandidateSecondaryIds)
                   \/ existing.enabled = ExerciseEnabled(row)

\* the stored row after the update: the fields that were equal to the
\* candidate's, and the id, are as before
UnchangedFieldsKept ==
    LET row == pages[page_no][idx]
        existing == existing_map[MapKey(CandidateName)]
    IN  IF op = "import_equipment"
        THEN \A e \in equipment : EquipmentSnapshot(e) = existing =>
                \E f \in equipment' :
                    /\ f.id = e.id
                    /\ f.name = e.name
                    /\ e.description = EquipmentDescription(row) => f.description = e.description
                    /\ e.enabled = EquipmentEnabled(row) => f.enabled = e.enabled
        ELSE \E f \in exercises' :
                /\ f.id = existing.id
                /\ existing.name = CandidateName => f.name = existing.name
                /\ SameIds(existing.primary_muscle_group_ids, CandidatePrimaryIds)
                      => f.primary_muscle_group_ids = existing.primary_muscle_group_ids
                /\ SameIds(existing.secondary_muscle_group_ids, CandidateSecondaryIds)
                      => f.secondary_muscle_group_ids = existing.secondary_muscle_group_ids
                /\ existing.enabled = ExerciseEnabled(row) => f.enabled = existing.enabled

\* C17 as stated: a matched entity that differs from the candidate in some
\* but not all compared fields is updated, and every field that was equal to
\* the candidate's value, and every field that is not compared, has the same
\* value after the update as before it.
C17_AsStated ==
    [][(PartlyDiffers /\ idx' = idx + 1) =>
            /\ outcome' = "updated"
            /\ updated_count' = updated_count + 1
            /\ UnchangedFieldsKept]_vars

(***************************************************************************)
(* C18  The diff is made against the stored state.                         *)
(***************************************************************************)
\* the last row of the file that bears the name of entity e, 0 if there is none
LastRowFor(e) ==
    LET rows == {i \in DOMAIN pages[1] : Lower(Strip(pages[1][i].name)) = Lower(e.name)}
    IN  IF rows = {} THEN 0 ELSE CHOOSE i \in rows : \A j \in rows : j <= i

\* a first import has returned, no other client wrote, and no two entities
\* of the kind have names equal up to letter case
FirstImportReturned ==
    op \in ImportOps /\ pc = "done" /\ ~rerun /\ quiet /\ NoCaseTwins(StartTable)

\* C18 as stated: UPDATE or SKIP is decided against the values stored at the
\* moment the record is processed, changes of earlier records of the run
\* included, so that after the run the compared fields of every matched
\* equipment are those of the last row of the file that bears its name.
C18_AsStated ==
    (FirstImportReturned /\ op = "import_equipment") =>
        \A e \in equipment :
            LastRowFor(e) # 0 =>
                /\ e.description = EquipmentDescription(pages[1][LastRowFor(e)])
                /\ e.enabled = EquipmentEnabled(pages[1][LastRowFor(e)])

(***************************************************************************)
(* C19  Rollback of a failed record.                                       *)
(***************************************************************************)
\* the step processes a record that ends as an error
RecordFails == RecordStep /\ outcome' = "none" /\ Len(errors') > Len(errors)

\* C19 as stated: when a record fails, none of its writes stays in the
\* store, it is reported as an error, and the records after it are processed
\* in a usable transaction.
C19_AsStated == [][RecordFails => Table' = Table /\ ~session_failed']_vars

(***************************************************************************)
(* C20  A full sync creates every candidate.                               *)
(***************************************************************************)
\* the records of the pages that the run has read
RecordsRead ==
    {<<p, i>> : p \in 1..page_no, i \in 1..MaxRows} \cap
    {<<p, i>> \in (DOMAIN pages) \X (1..MaxRows) : i \in DOMAIN pages[p]}

RecordName(r) == Strip(pages[r[1]][r[2]].name)

\* the records that the sync rejects: no name, or for an exercise no muscle
\* that the muscles of Wger know
RejectedRecord(r) ==
    \/ RecordName(r) = ""
    \/ op = "sync_exercises_from_wger"
          /\ \A i \in DOMAIN pages[r[1]][r[2]].muscles : pages[r[1]][r[2]].muscles[i] = ""

\* a sync with full_sync = true has returned and no other client wrote
FullSyncQuiet == op \in SyncOps /\ pc = "done" /\ full_sync /\ quiet

\* C20 as stated: in full_sync mode, absent concurrent writers, every
\* successfully processed candidate is created: updated = 0, skipped = 0 and
\* created is the number of candidates processed without error.
C20_AsStated ==
    FullSyncQuiet =>
        /\ report.updated = 0
        /\ report.skipped = 0
        /\ report.created = Cardinality({r \in RecordsRead : ~RejectedRecord(r)})

\* C20 (amended): in full_sync mode, absent concurrent writers and when no
\* two records of the source have names equal up to letter case, every
\* successfully processed candidate is created: updated = 0, skipped = 0 and
\* created is the number of candidates processed without error.
C20_FullSyncCreates ==
    (/\ FullSyncQuiet
     /\ \A r, q \in RecordsRead :
           (~RejectedRecord(r) /\ ~RejectedRecord(q) /\ Lower(RecordName(r)) = Lower(RecordName(q)))
               => r = q)
    => /\ report.updated = 0
       /\ report.skipped = 0
       /\ report.created = Cardinality({r \in RecordsRead : ~RejectedRecord(r)})

\* a full sync of two pages replaced the stored exercises by two created ones
C20_Witness ==
    /\ FullSyncQuiet
    /\ op = "sync_exercises_from_wger"
    /\ start_exercises # {}
    /\ Len(pages) = 2
    /\ report.created = 2
    /\ report.skipped = 0

(***************************************************************************)
(* The CRUD endpoints of workouts and exercises.  Every request runs in a  *)
(* session of its own and has returned before the next one is made.        *)
(***************************************************************************)
MaxRequests == 4

\* current_user["id"] of the users that hold a token
Users == {1, 2}

Dates == {1, 2}

Weights == {50, 60}

\* what a request answered: the exception it raised, or "none"
Response(handler, user, raised) == [handler |-> handler, user |-> user, raised |-> raised]

\* crud.get(db=db, id=...)
GetById(table, id) == {r \in table : r.id = id}

\* an explicit null in a PATCH body whose values are numbers
Null == 0

\* a PATCH body: the fields the client set
UpdateBodies(field, values) == {EmptyMap} \cup {[c \in {field} |-> v] : v \in values \cup {Null}}

\* ON DELETE CASCADE of exercise_instance.workout_id and exercise_instance.exercise_id
CascadeExerciseInstances(instances, ws, exs) ==
    {ei \in instances :
        /\ \E w \in ws : w.id = ei.workout_id
        /\ \E e \in exs : e.id = ei.exercise_id}

\* ON DELETE CASCADE of set.exercise_instance_id
CascadeSets(ss, instances) == {x \in ss : \E ei \in instances : ei.id = x.exercise_instance_id}

\* no import or sync is in progress
NoRun ==
    /\ op = "none"
    /\ pc = "idle"
    /\ full_sync = FALSE
    /\ pages = <<>>
    /\ page_no = 0
    /\ idx = 1
    /\ existing_map = EmptyMap
    /\ muscle_group_name_map = EmptyMap
    /\ muscle_groups_created = 0
    /\ session_failed = FALSE
    /\ created_count = 0
    /\ updated_count = 0
    /\ skipped_count = 0
    /\ errors = <<>>
    /\ report = NoReport
    /\ outcome = "none"
    /\ start_equipment = equipment
    /\ start_exercises = exercises
    /\ start_muscle_groups = muscle_groups
    /\ rerun = FALSE
    /\ quiet = TRUE
    /\ other_writes = 0

\* a request leaves the state of the imports alone
Answer(resp) ==
    /\ requests < MaxRequests
    /\ requests' = requests + 1
    /\ response' = resp
    /\ UNCHANGED <<runVars, histVars, equipmentVars, muscleGroupVars, sessionVars, scheduleVars>>

\* the checks that open update_workout, delete_workout, create_exercise_instance
\* and delete_exercise_instance: the workout exists and is the caller's
WorkoutCheck(workout_id, user) ==
    IF GetById(workouts, workout_id) = {} THEN "NotFoundException"
    ELSE IF \E w \in GetById(workouts, workout_id) : w.user_id # user THEN "ForbiddenException"
    ELSE "none"

\* the checks that open create_set: exercise instance, then its workout
ExerciseInstanceCheck(exercise_instance_id, user) ==
    IF GetById(exercise_instances, exercise_instance_id) = {} THEN "NotFoundException"
    ELSE LET ei == CHOOSE x \in GetById(exercise_instances, exercise_instance_id) : TRUE
         IN  WorkoutCheck(ei.workout_id, user)

\* the checks that open update_set and delete_set: set, exercise instance, workout
SetCheck(set_id, user) ==
    IF GetById(sets, set_id) = {} THEN "NotFoundException"
    ELSE LET set_obj == CHOOSE x \in GetById(sets, set_id) : TRUE
         IN  ExerciseInstanceCheck(set_obj.exercise_instance_id, user)

\* POST /workout
CreateWorkout ==
    \E user \in Users, date \in Dates :
        /\ workouts' = workouts \cup {[id |-> workout_seq + 1, user_id |-> user, date |-> date]}
        /\ workout_seq' = workout_seq + 1
        /\ Answer(Response("create_workout", user, "none"))
        /\ UNCHANGED <<exerciseVars, exercise_instances, exercise_instance_seq, sets, set_seq,
                       linkVars>>

\* PATCH /workout/{workout_id}; workout.date is NOT NULL
UpdateWorkout ==
    \E user \in Users, workout_id \in 1..(workout_seq + 1), values \in UpdateBodies("date", Dates) :
        LET raised == IF WorkoutCheck(workout_id, user) # "none" THEN WorkoutCheck(workout_id, user)
                      ELSE IF "date" \in DOMAIN values /\ values["date"] = Null THEN "IntegrityError"
                      ELSE "none"
        IN  /\ workouts' = IF raised = "none" /\ "date" \in DOMAIN values
                           THEN {IF w.id = workout_id THEN [w EXCEPT !.date = values["date"]] ELSE w :
                                    w \in workouts}
                           ELSE workouts
            /\ Answer(Response("update_workout", user, raised))
            /\ UNCHANGED <<exerciseVars, workout_seq, exercise_instances, exercise_instance_seq,
                           sets, set_seq, linkVars>>

\* DELETE /workout/{workout_id}
DeleteWorkout ==
    \E user \in Users, workout_id \in 1..(workout_seq + 1) :
        LET raised == WorkoutCheck(workout_id, user)
            kept == {w \in workouts : w.id # workout_id}
        IN  /\ IF raised = "none"
               THEN /\ workouts' = kept
                    /\ exercise_instances' = CascadeExerciseInstances(exercise_instances, kept, exercises)
                    /\ sets' = CascadeSets(sets, exercise_instances')
               ELSE UNCHANGED <<workouts, exercise_instances, sets>>
            /\ Answer(Response("delete_workout", user, raised))
            /\ UNCHANGED <<exerciseVars, workout_seq, exercise_instance_seq, set_seq, linkVars>>

\* POST /workout/{workout_id}/exercise-instance
CreateExerciseInstance ==
    \E user \in Users, workout_id \in 1..(workout_seq + 1), exercise_id \in 1..(exercise_seq + 1) :
        LET raised == IF WorkoutCheck(workout_id, user) # "none" THEN WorkoutCheck(workout_id, user)
                      ELSE IF GetById(exercises, exercise_id) = {} THEN "NotFoundException"
                      ELSE "none"
        IN  /\ IF raised = "none"
               THEN /\ exercise_instances' = exercise_instances \cup
                          {[id |-> exercise_instance_seq + 1, workout_id |-> workout_id,
                            exercise_id |-> exercise_id, order |-> 0]}
                    /\ exercise_instance_seq' = exercise_instance_seq + 1
               ELSE UNCHANGED <<exercise_instances, exercise_instance_seq>>
            /\ Answer(Response("create_exercise_instance", user, raised))
            /\ UNCHANGED <<exerciseVars, workouts, workout_seq, sets, set_seq, linkVars>>

\* DELETE /workout/{workout_id}/exercise-instance/{exercise_instance_id}
DeleteExerciseInstance ==
    \E user \in Users, workout_id \in 1..(workout_seq + 1),
       exercise_instance_id \in 1..(exercise_instance_seq + 1) :
        LET raised == IF WorkoutCheck(workout_id, user) # "none" THEN WorkoutCheck(workout_id, user)
                      ELSE IF \A ei \in GetById(exercise_instances, exercise_instance_id) :
                                   ei.workout_id # workout_id
                           THEN "NotFoundException"
                      ELSE "none"
        IN  /\ IF raised = "none"
               THEN /\ exercise_instances' = {ei \in exercise_instances : ei.id # exercise_instance_id}
                    /\ sets' = CascadeSets(sets, exercise_instances')
               ELSE UNCHANGED <<exercise_instances, sets>>
            /\ Answer(Response("delete_exercise_instance", user, raised))
            /\ UNCHANGED <<exerciseVars, workouts, workout_seq, exercise_instance_seq, set_seq,
                           linkVars>>

\* POST /exercise-instance/{exercise_instance_id}/set
CreateSet ==
    \E user \in Users, exercise_instance_id \in 1..(exercise_instance_seq + 1), weight \in Weights :
        LET raised == ExerciseInstanceCheck(exercise_instance_id, user)
        IN  /\ IF raised = "none"
               THEN /\ sets' = sets \cup {[id |-> set_seq + 1,
                                           exercise_instance_id |-> exercise_instance_id,
                                           weight_value |-> weight]}
                    /\ set_seq' = set_seq + 1
               ELSE UNCHANGED <<sets, set_seq>>
            /\ Answer(Response("create_set", user, raised))
            /\ UNCHANGED <<exerciseVars, workouts, workout_seq, exercise_instances,
                           exercise_instance_seq, linkVars>>

\* PATCH /set/{set_id}; set.weight_value is NOT NULL
UpdateSet ==
    \E user \in Users, set_id \in 1..(set_seq + 1), values \in UpdateBodies("weight_value", Weights) :
        LET raised == IF SetCheck(set_id, user) # "none" THEN SetCheck(set_id, user)
                      ELSE IF "weight_value" \in DOMAIN values /\ values["weight_value"] = Null
                           THEN "IntegrityError"
                      ELSE "none"
        IN  /\ sets' = IF raised = "none" /\ "weight_value" \in DOMAIN values
                       THEN {IF x.id = set_id THEN [x EXCEPT !.weight_value = values["weight_value"]]
                             ELSE x : x \in sets}
                       ELSE sets
            /\ Answer(Response("update_set", user, raised))
            /\ UNCHANGED <<exerciseVars, workouts, workout_seq, exercise_instances,
                           exercise_instance_seq, set_seq, linkVars>>

\* DELETE /set/{set_id}
DeleteSet ==
    \E user \in Users, set_id \in 1..(set_seq + 1) :
        LET raised == SetCheck(set_id, user)
        IN  /\ sets' = IF raised = "none" THEN {x \in sets : x.id # set_id} ELSE sets
            /\ Answer(Response("delete_set", user, raised))
            /\ UNCHANGED <<exerciseVars, workouts, workout_seq, exercise_instances,
                           exercise_instance_seq, set_seq, linkVars>>

\* DELETE /exercise/{exercise_id}: any user; exercise_equipment.exercise_id and
\* exercise_entry.exercise_id have no ON DELETE rule, so an exercise that is
\* linked or logged in a session cannot be deleted
DeleteExercise ==
    \E user \in Users, exercise_id \in 1..(exercise_seq + 1) :
        LET raised == IF GetById(exercises, exercise_id) = {} THEN "NotFoundException"
                      ELSE IF \/ \E l \in exercise_equipment : l.exercise_id = exercise_id
                              \/ \E x \in exercise_entries : x.exercise_id = exercise_id
                           THEN "IntegrityError"
                      ELSE "none"
        IN  /\ IF raised = "none"
               THEN /\ exercises' = DeleteExercises(exercises, {exercise_id})
                    /\ exercise_instances' =
                          CascadeExerciseInstances(exercise_instances, workouts, exercises')
                    /\ sets' = CascadeSets(sets, exercise_instances')
               ELSE UNCHANGED <<exercises, exercise_instances, sets>>
            /\ Answer(Response("delete_exercise", user, raised))
            /\ UNCHANGED <<exercise_seq, workouts, workout_seq, exercise_instance_seq, set_seq,
                           linkVars>>

\* the catalogue holds two exercises; no workout is logged yet
InitWorkouts ==
    /\ equipment = {}
    /\ equipment_seq = 0
    /\ muscle_groups = SeedMuscleGroups
    /\ muscle_group_seq = 2
    /\ exercises = {NewExercise(1, "Row", <<2, 1>>, <<>>, TRUE),
                    NewExercise(2, "Squat", <<1>>, <<1, 2>>, TRUE)}
    /\ exercise_seq = 2
    /\ NoRun
    /\ NoWorkouts

NextWorkouts ==
    \/ CreateWorkout
    \/ UpdateWorkout
    \/ DeleteWorkout
    \/ CreateExerciseInstance
    \/ DeleteExerciseInstance
    \/ CreateSet
    \/ UpdateSet
    \/ DeleteSet
    \/ DeleteExercise

SpecWorkouts == InitWorkouts /\ [][NextWorkouts]_vars

(***************************************************************************)
(* POST /exercise and PATCH /exercise/{exercise_id}                        *)
(***************************************************************************)
\* what create_exercise and update_exercise answered; they do not look at current_user
ExerciseResponse(handler, raised, exercise_id, name) ==
    [handler |-> handler, raised |-> raised, exercise_id |-> exercise_id, name |-> name]

\* crud_exercises.exists(db=db, name=...)
ExistsByName(table, name) == GetByName(table, name) # {}

\* "for mg_id in ...: if crud.get(db=db, id=mg_id) is None": an id of the list is not stored
MissingId(table, ids) == \E i \in DOMAIN ids : GetById(table, ids[i]) = {}

\* (faulty variant: the name is checked after the muscle groups and the equipment)
CreateExerciseRaisesLate(name, primary_ids, secondary_ids, equipment_ids) ==
    IF MissingId(muscle_groups, primary_ids) THEN "NotFoundException"
    ELSE IF MissingId(muscle_groups, secondary_ids) THEN "NotFoundException"
    ELSE IF MissingId(equipment, equipment_ids) THEN "NotFoundException"
    ELSE IF ExistsByName(exercises, name) THEN "DuplicateValueException"
    ELSE "none"

\* the checks of create_exercise, in their order
CreateExerciseRaises(name, primary_ids, secondary_ids, equipment_ids) ==
    IF ExistsByName(exercises, name) THEN "DuplicateValueException"
    ELSE IF MissingId(muscle_groups, primary_ids) THEN "NotFoundException"
    ELSE IF MissingId(muscle_groups, secondary_ids) THEN "NotFoundException"
    ELSE IF MissingId(equipment, equipment_ids) THEN "NotFoundException"
    ELSE "none"

\* the rows of exercise_equipment for a pair
LinksOf(links, exercise_id, equipment_id) ==
    {l \in links : l.exercise_id = exercise_id /\ l.equipment_id = equipment_id}

\* get_by_exercise, as the set of equipment ids of its rows
CurrentEquipmentIds(links, exercise_id) ==
    {l.equipment_id : l \in {k \in links : k.exercise_id = exercise_id}}

\* the table exercise_equipment and the last id it gave out
LinkTable(links, seq) == [rows |-> links, seq |-> seq]

\* link_equipment, run without interruption: the row found, or a new one
LinkEquipment(t, exercise_id, equipment_id) ==
    IF LinksOf(t.rows, exercise_id, equipment_id) # {} THEN t
    ELSE LinkTable(t.rows \cup {[id |-> t.seq + 1, exercise_id |-> exercise_id,
                                  equipment_id |-> equipment_id]},
                   t.seq + 1)

\* unlink_equipment, run without interruption: the row that get returns is
\* deleted by its id
UnlinkEquipment(t, exercise_id, equipment_id) ==
    IF LinksOf(t.rows, exercise_id, equipment_id) = {} THEN t
    ELSE LinkTable(t.rows \ {CHOOSE l \in LinksOf(t.rows, exercise_id, equipment_id) : TRUE},
                   t.seq)

RECURSIVE UnlinkEach(_, _, _)
UnlinkEach(t, exercise_id, removed) ==
    IF removed = {} THEN t
    ELSE LET equipment_id == CHOOSE q \in removed : TRUE
         IN  UnlinkEach(UnlinkEquipment(t, exercise_id, equipment_id), exercise_id,
                        removed \ {equipment_id})

RECURSIVE LinkEach(_, _, _, _)
LinkEach(t, exercise_id, equipment_ids, current) ==
    IF equipment_ids = <<>> THEN t
    ELSE LinkEach(IF Head(equipment_ids) \in current THEN t
                  ELSE LinkEquipment(t, exercise_id, Head(equipment_ids)),
                  exercise_id, Tail(equipment_ids), current)

\* crud_exercise_equipment.set_equipment_for_exercise, run without
\* interruption: the ids linked and not in equipment_ids are unlinked, then
\* the ids of equipment_ids that were not linked are linked
SetEquipmentForExercise(t, exercise_id, equipment_ids) ==
    LET current == CurrentEquipmentIds(t.rows, exercise_id)
    IN  LinkEach(UnlinkEach(t, exercise_id, current \ Range(equipment_ids)),
                 exercise_id, equipment_ids, current)

\* the ids a body can name: stored muscle groups 1 and 2, equipment 1, and ids that are not stored
PrimaryIdLists == {<<1>>, <<3>>}

SecondaryIdLists == {<<>>, <<2>>}

EquipmentIdLists == {<<>>, <<1>>, <<2>>}

\* create_exercise, called with a body
CreateExerciseWith(name, primary_ids, secondary_ids, equipment_ids) ==
        LET raised == CreateExerciseRaises(name, primary_ids, secondary_ids, equipment_ids)
        IN  /\ IF raised = "none"
               THEN /\ exercises' = exercises \cup
                          {NewExercise(exercise_seq + 1, name, primary_ids, secondary_ids, TRUE)}
                    /\ exercise_seq' = exercise_seq + 1
                    /\ LET t == IF equipment_ids # <<>>
                                 THEN SetEquipmentForExercise(
                                          LinkTable(exercise_equipment, exercise_equipment_seq),
                                          exercise_seq + 1, equipment_ids)
                                 ELSE LinkTable(exercise_equipment, exercise_equipment_seq)
                       IN  /\ exercise_equipment' = t.rows
                           /\ exercise_equipment_seq' = t.seq
                    /\ UNCHANGED calls
               ELSE UNCHANGED <<exercises, exercise_seq, linkVars>>
            /\ Answer(ExerciseResponse("create_exercise", raised, 0, name))
            /\ UNCHANGED workoutVars

\* POST /exercise
PostExercise ==
    \E name \in ExerciseNames, primary_ids \in PrimaryIdLists,
       secondary_ids \in SecondaryIdLists, equipment_ids \in EquipmentIdLists :
        CreateExerciseWith(name, primary_ids, secondary_ids, equipment_ids)

\* a body of PATCH /exercise/{exercise_id}: the fields that are set, and those
\* of them that are null
ExerciseUpdateBody(fields, nulls, name, primary_ids, secondary_ids, equipment_ids) ==
    [fields |-> fields, nulls |-> nulls, name |-> name, primary_muscle_group_ids |-> primary_ids,
     secondary_muscle_group_ids |-> secondary_ids, equipment_ids |-> equipment_ids, enabled |-> FALSE]

ExerciseUpdateBodies ==
    {ExerciseUpdateBody({"name"}, {}, n, <<>>, <<>>, <<>>) : n \in ExerciseNames}
    \cup {ExerciseUpdateBody({"name"}, {"name"}, "", <<>>, <<>>, <<>>)}
    \cup {ExerciseUpdateBody({"name", "equipment_ids"}, {}, n, <<>>, <<>>, q) :
            n \in ExerciseNames, q \in {<<1>>, <<2>>}}
    \cup {ExerciseUpdateBody({"primary_muscle_group_ids", "secondary_muscle_group_ids", "enabled"},
                             {}, "", p, <<1>>, <<>>) : p \in {<<2>>, <<3>>}}

\* (faulty variant: the holder of the name is not compared with the exercise itself)
NameConflictWithSelf(table, exercise_id, name) == ExistsByName(table, name)

\* name_exists and existing_with_name's id differs from the id of the exercise
NameConflict(table, exercise_id, name) ==
    ExistsByName(table, name) /\ \E e \in GetByName(table, name) : e.id # exercise_id

\* the checks of update_exercise, in their order, and the exception of the
\* UPDATE that follows them
UpdateExerciseRaises(exercise_id, values) ==
    LET given == values.fields \ values.nulls
    IN  IF GetById(exercises, exercise_id) = {} THEN "NotFoundException"
        ELSE IF "name" \in given /\ NameConflict(exercises, exercise_id, values.name)
             THEN "DuplicateValueException"
        ELSE IF "primary_muscle_group_ids" \in given
                  /\ MissingId(muscle_groups, values.primary_muscle_group_ids)
             THEN "NotFoundException"
        ELSE IF "secondary_muscle_group_ids" \in given
                  /\ MissingId(muscle_groups, values.secondary_muscle_group_ids)
             THEN "NotFoundException"
        ELSE IF "equipment_ids" \in given /\ MissingId(equipment, values.equipment_ids)
             THEN "NotFoundException"
        ELSE IF UpdateExerciseResult(exercises, exercise_id, values.nulls, values.name) # "ok"
             THEN UpdateExerciseResult(exercises, exercise_id, values.nulls, values.name)
        ELSE "none"

\* update_exercise, called with a body
UpdateExerciseWith(exercise_id, values) ==
        LET raised == UpdateExerciseRaises(exercise_id, values)
        IN  /\ IF raised = "none"
               THEN /\ exercises' = UpdateExerciseRows(exercises, exercise_id, values.fields,
                                        values.name, values.primary_muscle_group_ids, values.enabled,
                                        "secondary_muscle_group_ids" \in values.fields,
                                        values.secondary_muscle_group_ids)
                    /\ LET t == IF "equipment_ids" \in values.fields
                                 THEN SetEquipmentForExercise(
                                          LinkTable(exercise_equipment, exercise_equipment_seq),
                                          exercise_id, values.equipment_ids)
                                 ELSE LinkTable(exercise_equipment, exercise_equipment_seq)
                       IN  /\ exercise_equipment' = t.rows
                           /\ exercise_equipment_seq' = t.seq
                    /\ UNCHANGED calls
               ELSE UNCHANGED <<exercises, linkVars>>
            /\ Answer(ExerciseResponse("update_exercise", raised, exercise_id,
                                        IF "name" \in values.fields \ values.nulls
                                        THEN values.name ELSE ""))
            /\ UNCHANGED <<exercise_seq, workoutVars>>

\* PATCH /exercise/{exercise_id}
UpdateExercise ==
    \E exercise_id \in 1..(exercise_seq + 1), values \in ExerciseUpdateBodies :
        UpdateExerciseWith(exercise_id, values)

\* the catalogue holds one equipment, two muscle groups and at most one exercise
InitExercises ==
    /\ equipment = {[id |-> 1, name |-> "Band", description |-> None, enabled |-> TRUE]}
    /\ equipment_seq = 1
    /\ muscle_groups = SeedMuscleGroups
    /\ muscle_group_seq = 2
    /\ exercises \in {{}, {NewExercise(1, "Squat", <<1>>, <<2, 1>>, TRUE)}}
    /\ exercise_seq = Cardinality(exercises)
    /\ NoRun
    /\ NoWorkouts

NextExercises ==
    \/ PostExercise
    \/ UpdateExercise
    \/ DeleteExercise

SpecExercises == InitExercises /\ [][NextExercises]_vars

(***************************************************************************)
(* C13  Workout ownership.                                                 *)
(***************************************************************************)
\* workout w with its exercise instances and their sets, in the given tables
WorkoutData(ws, instances, ss, w) ==
    [workout   |-> GetById(ws, w),
     instances |-> {ei \in instances : ei.workout_id = w},
     sets      |-> {x \in ss : \E ei \in instances :
                                  ei.workout_id = w /\ ei.id = x.exercise_instance_id}]

\* the step modifies or deletes workout w, one of its exercise instances or
\* one of its sets
Touches(w) ==
    WorkoutData(workouts', exercise_instances', sets', w)
        # WorkoutData(workouts, exercise_instances, sets, w)

\* C13 as stated: a request that is refused with ForbiddenException writes
\* nothing, and a workout, its exercise instances and its sets are modified
\* or deleted only by requests of the user whose id is the workout's user_id.
C13_AsStated ==
    [][/\ response'.raised = "ForbiddenException" => UNCHANGED <<workouts, exercise_instances, sets>>
       /\ \A w \in workouts : Touches(w.id) => response'.user = w.user_id]_vars

(***************************************************************************)
(* C14  create_exercise refuses a name that is taken.                      *)
(***************************************************************************)
\* the step is a create_exercise request whose name an exercise already holds
CreateOfHeldName ==
    /\ response'.handler = "create_exercise"
    /\ requests' = requests + 1
    /\ ExistsByName(exercises, response'.name)

UpdateOfName ==
    /\ response'.handler = "update_exercise"
    /\ requests' = requests + 1
    /\ response'.name # ""
    /\ GetById(exercises, response'.exercise_id) # {}

NoSharedName == \A e, f \in exercises : e.name = f.name => e.id = f.id

AllRecords == UNION {{<<p, i>> : i \in DOMAIN pages[p]} : p \in DOMAIN pages}

\* the names, blank ones apart, that the source supplies
SourceNames == {RecordName(r) : r \in AllRecords} \ {""}

StoredNames == {e.name : e \in Table}

\* C21 as stated: after a sync with full_sync = true has returned, the names
\* of the stored entities of the kind are exactly the non-blank names of the
\* source: no earlier entity that the source lacks survives and every source
\* record is present.
C21_AsStated == (op \in SyncOps /\ pc = "done" /\ full_sync) => StoredNames = SourceNames

\* the sync fetched what it asked for: the muscles of Wger and every page
AllPagesFetched ==
    /\ page_no = Len(pages)
    /\ report.message \in {"Sync completed", "Wger sync completed"}

\* C21 (amended): after a sync with full_sync = true has returned, having
\* fetched every page and with no other writer during the run, the names of
\* the stored entities of the kind are, up to letter case, exactly the names
\* of the source records that the sync does not reject.
C21_FullResyncMirrors ==
    (op \in SyncOps /\ pc = "done" /\ full_sync /\ quiet /\ AllPagesFetched) =>
        {Lower(n) : n \in StoredNames}
            = {Lower(RecordName(r)) : r \in {q \in AllRecords : ~RejectedRecord(q)}}

\* a full sync of two pages replaced a stored equipment that the source lacks
C21_Witness ==
    /\ op = "sync_equipment_from_wger"
    /\ pc = "done"
    /\ full_sync
    /\ quiet
    /\ AllPagesFetched
    /\ Len(pages) = 2
    /\ \E e \in start_equipment : e.name \notin SourceNames
    /\ Cardinality(StoredNames) = 2

(***************************************************************************)
(* C23  Blank-name policy of the imports.                                  *)
(***************************************************************************)
\* the cells that hold nothing but whitespace
BlankCells == {"", " "}

\* the step processes a CSV row whose name is blank after trimming
NamelessRowStep == op \in ImportOps /\ RecordStep /\ pages[1][idx].name \in BlankCells

\* C23: a CSV row whose name is blank after trimming is never created and
\* never matched to an entity; import_equipment counts it in skipped and
\* appends no error, import_exercises appends exactly one error that names
\* the row and counts it in none of created, updated and skipped.
C23_BlankNamePolicy ==
    [][NamelessRowStep =>
          /\ UNCHANGED <<dbVars, created_count, updated_count>>
          /\ IF op = "import_equipment"
             THEN /\ skipped_count' = skipped_count + 1
                  /\ errors' = errors
             ELSE /\ skipped_count' = skipped_count
                  /\ Len(errors') = Len(errors) + 1
                  /\ SubSeq(errors', 1, Len(errors)) = errors
                  /\ errors'[Len(errors')].at = idx]_vars

\* an import_equipment skipped a nameless second row without an error and
\* created the first row
C23_Witness ==
    /\ op = "import_equipment"
    /\ pc = "done"
    /\ Len(pages[1]) = 2
    /\ pages[1][2].name \in BlankCells
    /\ report.skipped = 1
    /\ report.created = 1
    /\ report.errors = <<>>

(***************************************************************************)
(* C24  Normalisation of the enabled flag.  Files of one row whose enabled *)
(* cell takes every form: no such column, empty, padded, other letter      *)
(* case, words that are not accepted.                                      *)
(***************************************************************************)
EnabledCells ==
    {"", " ", "true", " TRUE ", "1", "Yes", "Y", "Enabled", "false", "0", " no ", "off"}

\* files with and without the column enabled
EnabledEquipmentCSVs ==
    {<<[name |-> n, description |-> ""]>> : n \in {"Band", "Bar"}}
    \cup {<<[name |-> n, description |-> "", enabled |-> c]>> : n \in {"Band", "Bar"}, c \in EnabledCells}

EnabledExerciseCSVs ==
    {<<[name |-> n, primary_muscle_groups |-> <<"Chest">>, secondary_muscle_groups |-> <<>>]>> :
        n \in {"Squat", "Row"}}
    \cup {<<ExerciseRow(n, <<"Chest">>, <<>>, c)>> : n \in {"Squat", "Row"}, c \in EnabledCells}

StartEnabledImportEquipment ==
    /\ UNCHANGED requestVars
    /\ op = "import_equipment"
    /\ pc = "idle"
    /\ \E csv \in EnabledEquipmentCSVs : BeginImportEquipment(csv, FALSE)

StartEnabledImportExercises ==
    /\ UNCHANGED requestVars
    /\ op = "import_exercises"
    /\ pc = "idle"
    /\ \E csv \in EnabledExerciseCSVs : BeginImportExercises(csv, FALSE)

InitEnabled == Init /\ op \in ImportOps

NextEnabled ==
    \/ StartEnabledImportEquipment
    \/ ImportEquipmentRow
    \/ ReturnImportEquipment
    \/ StartEnabledImportExercises
    \/ ImportExercisesRow
    \/ ReturnImportExercises

SpecEnabled == InitEnabled /\ [][NextEnabled]_vars

\* the cells that hold an accepted truthy word, up to padding and letter case
TruthyCells ==
    IF op = "import_equipment"
    THEN {"true", " TRUE ", "1", "Yes", "Enabled"}
    ELSE {"true", " TRUE ", "1", "Yes", "Y"}

\* the flag the claim gives a row: true without a value, true for a truthy
\* word, false otherwise
ClaimedEnabled(row) ==
    \/ "enabled" \notin DOMAIN row
    \/ row.enabled \in BlankCells
    \/ row.enabled \in TruthyCells

\* C24 as stated: the entity that an import creates from a row is enabled
\* when the row has no enabled value (no such column, or an empty cell) or
\* has an accepted truthy word, compared without regard to case and padding,
\* and is disabled for any other value.
C24_AsStated ==
    [][(op \in ImportOps /\ RecordStep /\ outcome' = "created") =>
          \A e \in Table' \ Table : e.enabled = ClaimedEnabled(pages[1][idx])]_vars

(***************************************************************************)
(* Chains of pages: the runs of the two sync handlers over a chain of up   *)
(* to MaxPages pages, each step of the handler taken in its turn.          *)
(***************************************************************************)
MaxPages == 3

\* the chains of 1..MaxPages pages of which each is one of somePages
Chains(somePages) == SeqsUpTo(somePages, MaxPages) \ {<<>>}

PagedEquipmentPages ==
    Chains({<<>>, <<[name |-> "Band"]>>, <<[name |-> "Bar"], [name |-> "band"]>>})

PagedExercisePages ==
    Chains({<<>>, <<WgerExercise("Squat", <<"Chest">>, <<"Chest", "Lats">>)>>,
            <<WgerExercise("Row", <<"Abs">>, <<"Abs">>), WgerExercise("", <<"Chest">>, <<>>)>>})

StartPagedSyncEquipment ==
    /\ UNCHANGED requestVars
    /\ op = "sync_equipment_from_wger"
    /\ pc = "idle"
    /\ \E ps \in PagedEquipmentPages, full \in BOOLEAN :
        /\ pages' = ps
        /\ full_sync' = full
        /\ IF full
           THEN /\ equipment' = {}
                /\ existing_map' = EmptyMap
           ELSE /\ equipment' = equipment
                /\ existing_map' \in EquipmentMaps(equipment)
    /\ pc' = "fetch"
    /\ page_no' = 0
    /\ idx' = 1
    /\ muscle_group_name_map' = EmptyMap
    /\ ResetCounters
    /\ report' = NoReport
    /\ rerun' = FALSE
    /\ quiet' = TRUE
    /\ UNCHANGED <<op, equipment_seq, exerciseVars, muscleGroupVars, other_writes>>

StartPagedSyncExercises ==
    /\ UNCHANGED requestVars
    /\ op = "sync_exercises_from_wger"
    /\ pc = "idle"
    /\ \E ps \in PagedExercisePages, full \in BOOLEAN, muscles_fetched \in BOOLEAN :
        BeginSyncExercises(ps, full, muscles_fetched)

InitPaged == Init /\ op \in SyncOps

\* the steps of a handler that has been called: the event loop resumes the
\* coroutine whenever its await completes, and client.get completes with a
\* response or with an exception (the client has a timeout)
HandlerStep ==
    \/ FetchEquipmentPage
    \/ SyncEquipmentRecord
    \/ NextEquipmentPage
    \/ FetchExercisesPage
    \/ SyncExercisesRecord
    \/ NextExercisesPage

NextPaged ==
    \/ StartPagedSyncEquipment
    \/ StartPagedSyncExercises
    \/ HandlerStep

SpecPaged == InitPaged /\ [][NextPaged]_vars /\ WF_vars(HandlerStep)

\* one step of a run that has started, seen from the pagination
Paginates ==
    pc # "idle" =>
        \* a page is requested only at the head of the loop, and it is the
        \* page that follows the last one fetched
        /\ page_no' # page_no =>
              pc = "fetch" /\ pc' = "rows" /\ page_no' = page_no + 1 /\ idx' = 1
        /\ idx' # idx /\ page_no' = page_no => pc = "rows" /\ idx' = idx + 1
        \* the next page is asked for when every record of this one is done
        \* and the page has a next link
        /\ pc = "rows" /\ pc' = "fetch" =>
              idx > Len(pages[page_no]) /\ page_no < Len(pages)
        \* the loop is left from a page without next link, all records done
        /\ pc = "rows" /\ pc' = "done" =>
              idx > Len(pages[page_no]) /\ page_no = Len(pages)
        /\ pc = "rows" => pc' \in {"rows", "fetch", "done"}
        /\ pc = "fetch" => pc' \in {"rows", "done"}
        /\ pc = "done" => pc' = "done"
        /\ pages' = pages

Returned == pc = "done" /\ report # NoReport

\* C25: a sync run fetches its pages one at a time, in the order of the
\* next links and starting with the first, processes every record of a page
\* before it asks for the next page, and over a finite chain it ends by
\* returning a report (after the page without next link, or at a failed
\* request).
C25_SequentialPagination ==
    /\ [][Paginates]_vars
    /\ (op \in SyncOps /\ pc \in {"fetch", "rows"}) ~> Returned

\* a run over a chain of MaxPages pages has returned from the last page
C25_Witness ==
    /\ op \in SyncOps
    /\ Returned
    /\ Len(pages) = MaxPages
    /\ page_no = Len(pages)
    /\ idx > Len(pages[page_no])
    /\ \E p \in 1..Len(pages) : Len(pages[p]) = 2

(***************************************************************************)
(* C28  The delete of a full sync is committed before the first page.      *)
(***************************************************************************)
\* the first page of the kind is about to be requested by a full sync
BeforeFirstPage == op \in SyncOps /\ full_sync /\ pc = "fetch" /\ page_no = 0

\* the request for the first page of the kind fails
FirstFetchFails == BeforeFirstPage /\ pc' = "done"

\* no entity of before the run is in the table
OldEntitiesGone(table) == \A e \in StartTable : \A f \in table : f.id # e.id

\* C28: in full_sync mode every entity of the kind is deleted, and the delete
\* committed, before the first page of the kind is requested; when that
\* first request fails the run returns a report with created = 0, the
\* entities of before the run are not restored, and the table of the kind
\* holds nothing (but what another client created meanwhile).
C28_DeleteBeforeFetch ==
    /\ [](BeforeFirstPage => OldEntitiesGone(Table) /\ (quiet => Table = {}))
    /\ [][FirstFetchFails =>
            /\ report' # NoReport
            /\ report'.created = 0
            /\ Table' = Table
            /\ OldEntitiesGone(Table')
            /\ (quiet => Table' = {})]_vars

\* a full sync over a store that held entities returned at its first request
C28_Witness ==
    /\ op \in SyncOps
    /\ full_sync
    /\ pc = "done"
    /\ pages # <<>>
    /\ page_no = 0
    /\ StartTable # {}
    /\ Table = {}
    /\ report.created = 0

(***************************************************************************)
(* Calls of crud_exercise_equipment by clients whose requests interleave:  *)
(* every await of a call is a step, and every read sees what the other     *)
(* sessions have committed.                                                *)
(***************************************************************************)
MaxCalls == 3

LinkedExerciseIds == {1, 2}

LinkedEquipmentIds == {1, 2}

\* the lists of equipment ids a client passes
LinkedEquipmentIdLists == {<<>>, <<1>>, <<2>>, <<1, 2>>, <<1, 1>>}

\* the call of a caller, at its first await
NewCall(prev, call, exercise_id, equipment_ids) ==
    [NoCall EXCEPT !.call = call, !.exercise_id = exercise_id, !.equipment_ids = equipment_ids,
                   !.before = exercise_equipment,
                   !.repeated = /\ prev.pc = "done"
                                /\ prev.raised = "none"
                                /\ prev.alone
                                /\ prev.call = call
                                /\ prev.exercise_id = exercise_id
                                /\ prev.equipment_ids = equipment_ids]

\* set_equipment_for_exercise between two of its calls of unlink_equipment and
\* link_equipment: the next id of the first loop, in the order in which the
\* set current_equipment_ids is iterated, then the next of equipment_ids
NextSubCall(r) ==
    LET rest == {i \in r.at..Len(r.equipment_ids) : r.equipment_ids[i] \notin r.current}
    IN  IF r.todo # {}
        THEN {[r EXCEPT !.pc = "get", !.sub = "unlink", !.equipment_id = q, !.found = 0,
                        !.todo = @ \ {q}, !.unlinked = @ \cup {q}] : q \in r.todo}
        ELSE IF rest # {}
        THEN LET i == CHOOSE j \in rest : \A k \in rest : j <= k
             IN  {[r EXCEPT !.pc = "get", !.sub = "link", !.equipment_id = r.equipment_ids[i],
                            !.found = 0, !.at = i + 1, !.linked = @ \cup {r.equipment_ids[i]}]}
        ELSE {[r EXCEPT !.pc = "done", !.sub = "none"]}

\* link_equipment or unlink_equipment has returned to its caller
SubCallReturns(r) ==
    IF r.call = "set_equipment_for_exercise" THEN NextSubCall(r)
    ELSE {[r EXCEPT !.pc = "done", !.sub = "none"]}

\* a committed write of caller c: the calls of the others no longer run alone
Disturb(cs, c) ==
    [d \in Callers |-> IF d = c THEN cs[d] ELSE [cs[d] EXCEPT !.alone = FALSE]]

CallFrame ==
    UNCHANGED <<dbVars, runVars, histVars, workoutVars, sessionVars, scheduleVars, response>>

\* a client calls link_equipment(exercise_id, equipment_id)
CallLinkEquipment ==
    \E c \in Callers :
        /\ calls[c].pc \in {"idle", "done"}
        /\ requests < MaxCalls
        /\ requests' = requests + 1
        /\ \E exercise_id \in LinkedExerciseIds, equipment_id \in LinkedEquipmentIds :
            calls' = [calls EXCEPT ![c] =
                        [NewCall(calls[c], "link_equipment", exercise_id, <<equipment_id>>)
                            EXCEPT !.pc = "get", !.sub = "link", !.equipment_id = equipment_id,
                                   !.linked = {equipment_id}]]
        /\ UNCHANGED <<exercise_equipment, exercise_equipment_seq>>
        /\ CallFrame

\* a client calls unlink_equipment(exercise_id, equipment_id)
CallUnlinkEquipment ==
    \E c \in Callers :
        /\ calls[c].pc \in {"idle", "done"}
        /\ requests < MaxCalls
        /\ requests' = requests + 1
        /\ \E exercise_id \in LinkedExerciseIds, equipment_id \in LinkedEquipmentIds :
            calls' = [calls EXCEPT ![c] =
                        [NewCall(calls[c], "unlink_equipment", exercise_id, <<equipment_id>>)
                            EXCEPT !.pc = "get", !.sub = "unlink", !.equipment_id = equipment_id,
                                   !.unlinked = {equipment_id}]]
        /\ UNCHANGED <<exercise_equipment, exercise_equipment_seq>>
        /\ CallFrame

\* a client calls set_equipment_for_exercise(exercise_id, equipment_ids)
CallSetEquipmentForExercise ==
    \E c \in Callers :
        /\ calls[c].pc \in {"idle", "done"}
        /\ requests < MaxCalls
        /\ requests' = requests + 1
        /\ \E exercise_id \in LinkedExerciseIds, equipment_ids \in LinkedEquipmentIdLists :
            calls' = [calls EXCEPT ![c] =
                        [NewCall(calls[c], "set_equipment_for_exercise", exercise_id, equipment_ids)
                            EXCEPT !.pc = "current"]]
        /\ UNCHANGED <<exercise_equipment, exercise_equipment_seq>>
        /\ CallFrame

\* current_links = await self.get_by_exercise(...)
GetByExercise ==
    \E c \in Callers :
        /\ calls[c].pc = "current"
        /\ LET current == CurrentEquipmentIds(exercise_equipment, calls[c].exercise_id)
           IN  \E r \in NextSubCall([calls[c] EXCEPT
                                        !.current = current,
                                        !.todo = current \ Range(calls[c].equipment_ids)]) :
                    calls' = [calls EXCEPT ![c] = r]
        /\ UNCHANGED <<exercise_equipment, exercise_equipment_seq, requests>>
        /\ CallFrame

\* await self.get(exercise_id=..., equipment_id=...) of link_equipment and of
\* unlink_equipment: one of the rows of the pair, or None
GetLink ==
    \E c \in Callers :
        /\ calls[c].pc = "get"
        /\ LET rows == LinksOf(exercise_equipment, calls[c].exercise_id, calls[c].equipment_id)
           IN  IF rows = {}
               THEN IF calls[c].sub = "link"
                    THEN calls' = [calls EXCEPT ![c].pc = "create"]
                    ELSE \E r \in SubCallReturns(calls[c]) : calls' = [calls EXCEPT ![c] = r]
               ELSE \E l \in rows :
                        IF calls[c].sub = "link"
                        THEN \E r \in SubCallReturns([calls[c] EXCEPT !.found = l.id]) :
                                calls' = [calls EXCEPT ![c] = r]
                        ELSE calls' = [calls EXCEPT ![c].pc = "delete", ![c].found = l.id]
        /\ UNCHANGED <<exercise_equipment, exercise_equipment_seq, requests>>
        /\ CallFrame

\* await self.create(db=db, object=link_data): the row is inserted and
\* committed; the table has no constraint on the pair
CreateLink ==
    \E c \in Callers :
        /\ calls[c].pc = "create"
        /\ exercise_equipment' = exercise_equipment \cup
              {[id |-> exercise_equipment_seq + 1, exercise_id |-> calls[c].exercise_id,
                equipment_id |-> calls[c].equipment_id]}
        /\ exercise_equipment_seq' = exercise_equipment_seq + 1
        /\ \E r \in SubCallReturns(calls[c]) :
            calls' = Disturb([calls EXCEPT ![c] = r], c)
        /\ UNCHANGED requests
        /\ CallFrame

\* await self.db_delete(db=db, id=link_id)
DeleteLink ==
    \E c \in Callers :
        /\ calls[c].pc = "delete"
        /\ exercise_equipment' = {l \in exercise_equipment : l.id # calls[c].found}
        /\ \E r \in SubCallReturns(calls[c]) :
            calls' = IF exercise_equipment' # exercise_equipment
                     THEN Disturb([calls EXCEPT ![c] = r], c)
                     ELSE [calls EXCEPT ![c] = r]
        /\ UNCHANGED <<exercise_equipment_seq, requests>>
        /\ CallFrame

\* two exercises and two pieces of equipment are stored; nothing is linked
InitLinks ==
    /\ equipment = {[id |-> 1, name |-> "Band", description |-> None, enabled |-> TRUE],
                    [id |-> 2, name |-> "Bar", description |-> None, enabled |-> TRUE]}
    /\ equipment_seq = 2
    /\ muscle_groups = SeedMuscleGroups
    /\ muscle_group_seq = 2
    /\ exercises = {NewExercise(1, "Row", <<2, 1>>, <<>>, TRUE),
                    NewExercise(2, "Squat", <<1>>, <<1, 2>>, TRUE)}
    /\ exercise_seq = 2
    /\ NoRun
    /\ NoWorkouts

NextLinks ==
    \/ CallLinkEquipment
    \/ CallUnlinkEquipment
    \/ CallSetEquipmentForExercise
    \/ GetByExercise
    \/ GetLink
    \/ CreateLink
    \/ DeleteLink

SpecLinks == InitLinks /\ [][NextLinks]_vars

(***************************************************************************)
(* C29  At most one link row per pair.                                     *)
(***************************************************************************)
\* C29 as stated: after any interleaving of link_equipment, unlink_equipment
\* and set_equipment_for_exercise calls, no two rows of exercise_equipment
\* have the same exercise_id and equipment_id.
C29_AsStated ==
    \A l, k \in exercise_equipment :
        (l.exercise_id = k.exercise_id /\ l.equipment_id = k.equipment_id) => l.id = k.id

(***************************************************************************)
(* C22  set_equipment_for_exercise replaces the links of the exercise.     *)
(***************************************************************************)
\* caller c's call of set_equipment_for_exercise returns, and no other caller
\* has written since the call was made
SetEquipmentReturns(c) ==
    /\ calls[c].call = "set_equipment_for_exercise"
    /\ calls[c].pc # "done"
    /\ calls'[c].pc = "done"
    /\ calls'[c].alone

\* the rows of links other than those of the exercise for the ids in touched
OtherLinks(links, exercise_id, touched) ==
    {l \in links : l.exercise_id # exercise_id \/ l.equipment_id \notin touched}

\* what the claim says of the call of c that returns
ReplacedMinimally(c) ==
    LET r == calls'[c]
        ids == Range(r.equipment_ids)
        linked_before == CurrentEquipmentIds(r.before, r.exercise_id)
    IN  /\ r.unlinked = linked_before \ ids
        /\ r.linked = ids \ linked_before
        /\ OtherLinks(exercise_equipment', r.exercise_id, r.linked \cup r.unlinked)
              = OtherLinks(r.before, r.exercise_id, r.linked \cup r.unlinked)
        /\ CurrentEquipmentIds(exercise_equipment', r.exercise_id) = ids
        /\ r.repeated => r.linked = {} /\ r.unlinked = {}

\* C22 as stated: a call set_equipment_for_exercise(exercise, ids) unlinks
\* exactly the ids linked and not in ids, links exactly the ids of ids not
\* linked and touches no other link; afterwards the ids linked to the
\* exercise are those of ids, and the same call made again at once links and
\* unlinks nothing.
C22_AsStated == [][\A c \in Callers : SetEquipmentReturns(c) => ReplacedMinimally(c)]_vars

(***************************************************************************)
(* The requests that write exercise, equipment and exercise_equipment, one *)
(* after the other, with a sync.  exercise_equipment.exercise_id and       *)
(* .equipment_id are foreign keys without ON DELETE rule: the database     *)
(* refuses to delete a row that a link references.                         *)
(***************************************************************************)
\* the equipment, or the exercises, that some link references
Linked(table, column) == {e \in table : \E l \in exercise_equipment : l[column] = e.id}

\* what a request that is not part of the sync leaves alone
RequestFrame ==
    UNCHANGED <<runVars, start_equipment, start_exercises, start_muscle_groups, rerun, quiet,
                other_writes, muscleGroupVars, workoutVars, sessionVars, scheduleVars,
                calls>>

\* (faulty variant: the delete does not look at the links)
DeleteEquipmentUnchecked ==
    \E superuser \in BOOLEAN, equipment_id \in 1..(equipment_seq + 1) :
        LET raised == IF ~superuser \/ GetById(equipment, equipment_id) = {}
                      THEN "NotFoundException"
                      ELSE "none"
        IN  /\ requests < MaxRequests
            /\ requests' = requests + 1
            /\ response' = Response("delete_equipment", 0, raised)
            /\ equipment' = IF raised = "none"
                            THEN {e \in equipment : e.id # equipment_id}
                            ELSE equipment
            /\ UNCHANGED <<equipment_seq, exerciseVars, exercise_equipment, exercise_equipment_seq>>
            /\ RequestFrame

\* DELETE /equipment/{equipment_id}
DeleteEquipment ==
    \E superuser \in BOOLEAN, equipment_id \in 1..(equipment_seq + 1) :
        LET raised == IF ~superuser \/ GetById(equipment, equipment_id) = {}
                      THEN "NotFoundException"
                      ELSE IF GetById(Linked(equipment, "equipment_id"), equipment_id) # {}
                           THEN "IntegrityError"
                      ELSE "none"
        IN  /\ requests < MaxRequests
            /\ requests' = requests + 1
            /\ response' = Response("delete_equipment", 0, raised)
            /\ equipment' = IF raised = "none"
                            THEN {e \in equipment : e.id # equipment_id}
                            ELSE equipment
            /\ UNCHANGED <<equipment_seq, exerciseVars, exercise_equipment, exercise_equipment_seq>>
            /\ RequestFrame

\* POST /equipment
PostEquipment ==
    \E superuser \in BOOLEAN, name \in {"Band", "Bar"} :
        LET raised == IF ~superuser THEN "NotFoundException"
                      ELSE IF GetByName(equipment, name) # {} THEN "DuplicateValueException"
                      ELSE "none"
        IN  /\ requests < MaxRequests
            /\ requests' = requests + 1
            /\ response' = Response("create_equipment", 0, raised)
            /\ IF raised = "none"
               THEN /\ equipment' = equipment \cup
                          {[id |-> equipment_seq + 1, name |-> name, description |-> None,
                            enabled |-> TRUE]}
                    /\ equipment_seq' = equipment_seq + 1
               ELSE UNCHANGED equipmentVars
            /\ UNCHANGED <<exerciseVars, exercise_equipment, exercise_equipment_seq>>
            /\ RequestFrame

\* the checks of link_equipment_to_exercise and unlink_equipment_from_exercise
LinkRequestRaises(superuser, exercise_id, equipment_id) ==
    IF ~superuser
          \/ GetById(exercises, exercise_id) = {}
          \/ GetById(equipment, equipment_id) = {}
    THEN "NotFoundException"
    ELSE "none"

\* POST /exercise/{exercise_id}/equipment/{equipment_id}
LinkEquipmentToExercise ==
    \E superuser \in BOOLEAN, exercise_id \in 1..(exercise_seq + 1),
       equipment_id \in 1..(equipment_seq + 1) :
        LET raised == LinkRequestRaises(superuser, exercise_id, equipment_id)
            t == IF raised = "none"
                 THEN LinkEquipment(LinkTable(exercise_equipment, exercise_equipment_seq),
                                    exercise_id, equipment_id)
                 ELSE LinkTable(exercise_equipment, exercise_equipment_seq)
        IN  /\ requests < MaxRequests
            /\ requests' = requests + 1
            /\ response' = Response("link_equipment_to_exercise", 0, raised)
            /\ exercise_equipment' = t.rows
            /\ exercise_equipment_seq' = t.seq
            /\ UNCHANGED <<equipmentVars, exerciseVars>>
            /\ RequestFrame

\* DELETE /exercise/{exercise_id}/equipment/{equipment_id}
UnlinkEquipmentFromExercise ==
    \E superuser \in BOOLEAN, exercise_id \in 1..(exercise_seq + 1),
       equipment_id \in 1..(equipment_seq + 1) :
        LET raised == LinkRequestRaises(superuser, exercise_id, equipment_id)
            t == IF raised = "none"
                 THEN UnlinkEquipment(LinkTable(exercise_equipment, exercise_equipment_seq),
                                      exercise_id, equipment_id)
                 ELSE LinkTable(exercise_equipment, exercise_equipment_seq)
        IN  /\ requests < MaxRequests
            /\ requests' = requests + 1
            /\ response' = Response("unlink_equipment_from_exercise", 0, raised)
            /\ exercise_equipment' = t.rows
            /\ exercise_equipment_seq' = t.seq
            /\ UNCHANGED <<equipmentVars, exerciseVars>>
            /\ RequestFrame

\* POST /exercise with a list of equipment
PostLinkedExercise ==
    \E equipment_ids \in EquipmentIdLists :
        CreateExerciseWith("Row", <<1>>, <<>>, equipment_ids)

\* PATCH /exercise/{exercise_id} with a list of equipment
PatchExerciseEquipment ==
    \E exercise_id \in 1..(exercise_seq + 1), equipment_ids \in {<<>>, <<1>>, <<2, 1>>} :
        UpdateExerciseWith(exercise_id,
                           ExerciseUpdateBody({"equipment_ids"}, {}, "", <<>>, <<>>, equipment_ids))

\* the state of a sync that has ended
SyncEnded(full, ps, fetched, created, skipped) ==
    /\ pc' = "done"
    /\ full_sync' = full
    /\ pages' = ps
    /\ page_no' = IF fetched THEN 1 ELSE 0
    /\ idx' = IF fetched THEN Len(ps[1]) + 1 ELSE 1
    /\ existing_map' = EmptyMap
    /\ muscle_group_name_map' = EmptyMap
    /\ muscle_groups_created' = 0
    /\ session_failed' = FALSE
    /\ created_count' = created
    /\ updated_count' = 0
    /\ skipped_count' = skipped
    /\ outcome' = "none"
    /\ start_equipment' = equipment
    /\ start_exercises' = exercises
    /\ start_muscle_groups' = muscle_groups
    /\ rerun' = FALSE
    /\ quiet' = TRUE
    /\ UNCHANGED <<op, muscleGroupVars, other_writes, workoutVars, linkVars, sessionVars,
                   scheduleVars, requests>>

\* POST /equipment/sync-wger, from the request to its answer, for a source of
\* one page with the record Bar.  With full_sync the rows of equipment are
\* deleted one by one in the order of get_multi; the delete of a row that a
\* link references raises IntegrityError and ends the request, the rows
\* deleted before it being gone.
SyncLinkedEquipment ==
    /\ op = "sync_equipment_from_wger"
    /\ pc = "idle"
    /\ \E full \in BOOLEAN, fetched \in BOOLEAN :
        IF full /\ Linked(equipment, "equipment_id") # {}
        THEN /\ \E deleted \in SUBSET (equipment \ Linked(equipment, "equipment_id")) :
                    equipment' = equipment \ deleted
             /\ SyncEnded(TRUE, <<>>, FALSE, 0, 0)
             /\ errors' = <<>>
             /\ report' = NoReport
             /\ response' = Response("sync_equipment_from_wger", 0, "IntegrityError")
             /\ UNCHANGED <<equipment_seq, exerciseVars>>
        ELSE LET kept == IF full THEN {} ELSE equipment
                 create == fetched /\ ~\E e \in kept : Lower(e.name) = Lower("Bar")
                 created == IF create THEN 1 ELSE 0
                 skipped == IF fetched /\ ~create THEN 1 ELSE 0
             IN  /\ equipment' =
                       IF create
                       THEN kept \cup {[id |-> equipment_seq + 1, name |-> "Bar",
                                        description |-> None, enabled |-> TRUE]}
                       ELSE kept
                 /\ equipment_seq' = equipment_seq + created
                 /\ SyncEnded(full, << <<[name |-> "Bar"]>> >>, fetched, created, skipped)
                 /\ errors' = <<>>
                 /\ report' = [message |-> IF fetched THEN "Sync completed"
                                           ELSE "Failed to fetch equipment from Wger API",
                               created |-> created, updated |-> 0, skipped |-> skipped,
                               muscle_groups_created |-> 0, errors |-> <<>>]
                 /\ response' = Response("sync_equipment_from_wger", 0, "none")
                 /\ UNCHANGED exerciseVars

\* POST /exercises/sync-wger, from the request to its answer, for a source
\* whose one page of exercises is empty
SyncLinkedExercises ==
    /\ op = "sync_exercises_from_wger"
    /\ pc = "idle"
    /\ \E full \in BOOLEAN, muscles_fetched \in BOOLEAN, fetched \in BOOLEAN :
        IF full /\ muscles_fetched /\ Linked(exercises, "exercise_id") # {}
        THEN /\ \E deleted \in SUBSET (exercises \ Linked(exercises, "exercise_id")) :
                    exercises' = DeleteExercises(exercises, {e.id : e \in deleted})
             /\ SyncEnded(TRUE, <<>>, FALSE, 0, 0)
             /\ errors' = <<>>
             /\ report' = NoReport
             /\ response' = Response("sync_exercises_from_wger", 0, "IntegrityError")
             /\ UNCHANGED <<exercise_seq, equipmentVars>>
        ELSE /\ exercises' = IF full /\ muscles_fetched
                             THEN DeleteExercises(exercises, {e.id : e \in exercises})
                             ELSE exercises
             /\ SyncEnded(full, IF muscles_fetched THEN << <<>> >> ELSE <<>>,
                          muscles_fetched /\ fetched, 0, 0)
             /\ errors' = IF muscles_fetched /\ ~fetched
                          THEN <<Error(0, "Failed to fetch exercises from Wger API")>>
                          ELSE <<>>
             /\ report' = [NoReport EXCEPT
                             !.message = IF muscles_fetched THEN "Wger sync completed"
                                         ELSE "Failed to fetch muscles from Wger API",
                             !.errors = errors']
             /\ response' = Response("sync_exercises_from_wger", 0, "none")
             /\ UNCHANGED <<exercise_seq, equipmentVars>>

\* one equipment and one exercise are stored, not linked; no request was made
InitIntegrity ==
    /\ op \in SyncOps
    /\ equipment = {[id |-> 1, name |-> "Band", description |-> None, enabled |-> TRUE]}
    /\ equipment_seq = 1
    /\ muscle_groups = SeedMuscleGroups
    /\ muscle_group_seq = 2
    /\ exercises = {NewExercise(1, "Squat", <<1>>, <<2, 1>>, TRUE)}
    /\ exercise_seq = 1
    /\ pc = "idle"
    /\ full_sync = FALSE
    /\ pages = <<>>
    /\ page_no = 0
    /\ idx = 1
    /\ existing_map = EmptyMap
    /\ muscle_group_name_map = EmptyMap
    /\ muscle_groups_created = 0
    /\ session_failed = FALSE
    /\ created_count = 0
    /\ updated_count = 0
    /\ skipped_count = 0
    /\ errors = <<>>
    /\ report = NoReport
    /\ outcome = "none"
    /\ start_equipment = equipment
    /\ start_exercises = exercises
    /\ start_muscle_groups = muscle_groups
    /\ rerun = FALSE
    /\ quiet = TRUE
    /\ other_writes = 0
    /\ NoWorkouts

NextIntegrity ==
    \/ PostLinkedExercise
    \/ PatchExerciseEquipment
    \/ DeleteExercise
    \/ PostEquipment
    \/ DeleteEquipment
    \/ LinkEquipmentToExercise
    \/ UnlinkEquipmentFromExercise
    \/ SyncLinkedEquipment
    \/ SyncLinkedExercises

SpecIntegrity == InitIntegrity /\ [][NextIntegrity]_vars

(***************************************************************************)
(* C30  Every link references an exercise and an equipment that exist.     *)
(***************************************************************************)
\* C30: after any sequence of creates and deletes of exercises and of
\* equipment, link and unlink requests, set_equipment_for_exercise and full
\* syncs, every row of exercise_equipment references an exercise and an
\* equipment that are stored; no delete leaves a link to what it deleted.
C30_ReferentialIntegrity ==
    \A l \in exercise_equipment :
        /\ GetById(exercises, l.exercise_id) # {}
        /\ GetById(equipment, l.equipment_id) # {}

\* the delete of an equipment that an exercise is linked to was refused
C30_Witness ==
    /\ response.handler = "delete_equipment"
    /\ response.raised = "IntegrityError"
    /\ exercise_equipment # {}

(***************************************************************************)
(* Workout sessions, their exercise entries and set entries.               *)
(***************************************************************************)
\* what a request on a session answered; session_id is the session the
\* request is about (0 when the row it names does not exist)
SessionResponse(handler, user, raised, session_id) ==
    [handler |-> handler, user |-> user, raised |-> raised, session_id |-> session_id]

SessionAnswer(resp) ==
    /\ requests < MaxRequests
    /\ requests' = requests + 1
    /\ response' = resp
    /\ UNCHANGED <<runVars, histVars, equipmentVars, exerciseVars, muscleGroupVars, workoutVars,
                   linkVars, scheduleVars>>

\* the session an exercise entry belongs to, 0 for no entry
SessionOfEntry(entry_id) ==
    IF GetById(exercise_entries, entry_id) = {} THEN 0
    ELSE (CHOOSE x \in GetById(exercise_entries, entry_id) : TRUE).workout_session_id

\* the session a set entry belongs to, 0 for no set entry
SessionOfSetEntry(set_id) ==
    IF GetById(set_entries, set_id) = {} THEN 0
    ELSE SessionOfEntry((CHOOSE x \in GetById(set_entries, set_id) : TRUE).exercise_entry_id)

\* (faulty variant: the session is looked up by its id alone)
GetSessionOfAnyUser(session_id, user) == GetById(workout_sessions, session_id)

\* crud_workout_session.get(db=db, id=session_id, user_id=current_user["id"])
GetSessionOfUser(session_id, user) ==
    {w \in GetById(workout_sessions, session_id) : w.user_id = user}

SessionCheck(session_id, user) ==
    IF GetSessionOfUser(session_id, user) = {} THEN "NotFoundException" ELSE "none"

SessionNotes == {"a", "b"}

\* the bodies of PATCH /workout-session/{session_id}: the fields that are set
SessionUpdateBodies ==
    {[fields |-> {}, notes |-> ""], [fields |-> {"completed_at"}, notes |-> ""]}
    \cup {[fields |-> {"notes"}, notes |-> n] : n \in SessionNotes}

\* the number of set entries of the exercise entries of a session
TotalSets(session_id) ==
    Cardinality({x \in set_entries : SessionOfEntry(x.exercise_entry_id) = session_id})

\* POST /workout-session
CreateWorkoutSession ==
    \E user \in Users :
        /\ workout_sessions' = workout_sessions \cup
              {[id |-> workout_session_seq + 1, user_id |-> user, notes |-> "", total_sets |-> 0]}
        /\ workout_session_seq' = workout_session_seq + 1
        /\ SessionAnswer(SessionResponse("create_workout_session", user, "none",
                                         workout_session_seq + 1))
        /\ UNCHANGED <<exercise_entries, exercise_entry_seq, set_entries, set_entry_seq>>

\* PATCH /workout-session/{session_id}
UpdateWorkoutSession ==
    \E user \in Users, session_id \in 1..(workout_session_seq + 1),
       session_update \in SessionUpdateBodies :
        LET raised == SessionCheck(session_id, user)
        IN  /\ workout_sessions' =
                  IF raised = "none"
                  THEN {IF w.id # session_id THEN w
                        ELSE IF "notes" \in session_update.fields
                             THEN [w EXCEPT !.notes = session_update.notes]
                        ELSE IF "completed_at" \in session_update.fields
                             THEN [w EXCEPT !.total_sets = TotalSets(session_id)]
                        ELSE w : w \in workout_sessions}
                  ELSE workout_sessions
            /\ SessionAnswer(SessionResponse("update_workout_session", user, raised,
                    IF GetById(workout_sessions, session_id) = {} THEN 0 ELSE session_id))
            /\ UNCHANGED <<workout_session_seq, exercise_entries, exercise_entry_seq, set_entries,
                           set_entry_seq>>

\* DELETE /workout-session/{session_id}; exercise_entry.workout_session_id has
\* no ON DELETE rule, so a session that has entries cannot be deleted
DeleteWorkoutSession ==
    \E user \in Users, session_id \in 1..(workout_session_seq + 1) :
        LET raised == IF SessionCheck(session_id, user) # "none" THEN "NotFoundException"
                      ELSE IF \E x \in exercise_entries : x.workout_session_id = session_id
                           THEN "IntegrityError"
                      ELSE "none"
        IN  /\ workout_sessions' = IF raised = "none"
                                   THEN {w \in workout_sessions : w.id # session_id}
                                   ELSE workout_sessions
            /\ SessionAnswer(SessionResponse("delete_workout_session", user, raised,
                    IF GetById(workout_sessions, session_id) = {} THEN 0 ELSE session_id))
            /\ UNCHANGED <<workout_session_seq, exercise_entries, exercise_entry_seq, set_entries,
                           set_entry_seq>>

\* POST /workout-session/{session_id}/exercise-entry
AddExerciseToSession ==
    \E user \in Users, session_id \in 1..(workout_session_seq + 1),
       exercise_id \in 1..(exercise_seq + 1) :
        LET raised == IF SessionCheck(session_id, user) # "none" THEN "NotFoundException"
                      ELSE IF GetById(exercises, exercise_id) = {} THEN "NotFoundException"
                      ELSE "none"
        IN  /\ IF raised = "none"
               THEN /\ exercise_entries' = exercise_entries \cup
                          {[id |-> exercise_entry_seq + 1, workout_session_id |-> session_id,
                            exercise_id |-> exercise_id]}
                    /\ exercise_entry_seq' = exercise_entry_seq + 1
               ELSE UNCHANGED <<exercise_entries, exercise_entry_seq>>
            /\ SessionAnswer(SessionResponse("add_exercise_to_session", user, raised,
                    IF GetById(workout_sessions, session_id) = {} THEN 0 ELSE session_id))
            /\ UNCHANGED <<workout_sessions, workout_session_seq, set_entries, set_entry_seq>>

\* the checks of add_set_to_entry: the entry exists and its session is the
\* caller's
EntryCheck(entry_id, user) ==
    IF GetById(exercise_entries, entry_id) = {} THEN "NotFoundException"
    ELSE SessionCheck(SessionOfEntry(entry_id), user)

\* POST /exercise-entry/{entry_id}/set
AddSetToEntry ==
    \E user \in Users, entry_id \in 1..(exercise_entry_seq + 1), weight_kg \in Weights :
        LET raised == EntryCheck(entry_id, user)
        IN  /\ IF raised = "none"
               THEN /\ set_entries' = set_entries \cup
                          {[id |-> set_entry_seq + 1, exercise_entry_id |-> entry_id,
                            weight_kg |-> weight_kg]}
                    /\ set_entry_seq' = set_entry_seq + 1
               ELSE UNCHANGED <<set_entries, set_entry_seq>>
            /\ SessionAnswer(SessionResponse("add_set_to_entry", user, raised,
                                             SessionOfEntry(entry_id)))
            /\ UNCHANGED <<workout_sessions, workout_session_seq, exercise_entries,
                           exercise_entry_seq>>

\* the checks of update_set_entry: the set exists, its entry exists and the
\* session of the entry is the caller's
SetEntryCheck(set_id, user) ==
    IF GetById(set_entries, set_id) = {} THEN "NotFoundException"
    ELSE EntryCheck((CHOOSE x \in GetById(set_entries, set_id) : TRUE).exercise_entry_id, user)

\* PATCH /set-entry/{set_id}
UpdateSetEntry ==
    \E user \in Users, set_id \in 1..(set_entry_seq + 1),
       set_update \in UpdateBodies("weight_kg", Weights) \ {[c \in {"weight_kg"} |-> Null]} :
        LET raised == SetEntryCheck(set_id, user)
        IN  /\ set_entries' =
                  IF raised = "none" /\ "weight_kg" \in DOMAIN set_update
                  THEN {IF x.id = set_id THEN [x EXCEPT !.weight_kg = set_update["weight_kg"]]
                        ELSE x : x \in set_entries}
                  ELSE set_entries
            /\ SessionAnswer(SessionResponse("update_set_entry", user, raised,
                                             SessionOfSetEntry(set_id)))
            /\ UNCHANGED <<workout_sessions, workout_session_seq, exercise_entries,
                           exercise_entry_seq, set_entry_seq>>

\* the catalogue holds two exercises; no session is logged yet
InitSessions ==
    /\ equipment = {}
    /\ equipment_seq = 0
    /\ muscle_groups = SeedMuscleGroups
    /\ muscle_group_seq = 2
    /\ exercises = {NewExercise(1, "Row", <<2, 1>>, <<>>, TRUE)}
    /\ exercise_seq = 1
    /\ NoRun
    /\ NoWorkouts

NextSessions ==
    \/ CreateWorkoutSession
    \/ UpdateWorkoutSession
    \/ DeleteWorkoutSession
    \/ AddExerciseToSession
    \/ AddSetToEntry
    \/ UpdateSetEntry
    \/ DeleteExercise

SpecSessions == InitSessions /\ [][NextSessions]_vars

(***************************************************************************)
(* C26  Workout-session isolation.                                         *)
(***************************************************************************)
\* session w with its exercise entries and their set entries, in the given tables
SessionData(ws, entries, ss, w) ==
    [session |-> GetById(ws, w),
     entries |-> {x \in entries : x.workout_session_id = w},
     sets    |-> {x \in ss : \E y \in entries :
                                y.workout_session_id = w /\ y.id = x.exercise_entry_id}]

\* the step creates, modifies or deletes session w, one of its exercise
\* entries or one of its set entries
TouchesSession(w) ==
    SessionData(workout_sessions', exercise_entries', set_entries', w)
        # SessionData(workout_sessions, exercise_entries, set_entries, w)

GuardedHandlers ==
    {"update_workout_session", "delete_workout_session", "add_exercise_to_session",
     "add_set_to_entry", "update_set_entry"}

\* the request of this step is one of the five, by a user who does not own
\* the session it is about
ByNonOwner ==
    /\ response'.handler \in GuardedHandlers
    /\ \E w \in GetById(workout_sessions, response'.session_id) : w.user_id # response'.user

\* C26: update_workout_session, delete_workout_session,
\* add_exercise_to_session, add_set_to_entry and update_set_entry, called by
\* a user who does not own the session concerned, raise NotFoundException and
\* write nothing; a session, its exercise entries and their set entries are
\* created, modified and deleted only by requests of the session's owner.
C26_SessionIsolation ==
    [][/\ ByNonOwner =>
            /\ response'.raised = "NotFoundException"
            /\ UNCHANGED <<sessionVars, dbVars>>
       /\ \A w \in workout_sessions \cup workout_sessions' :
            TouchesSession(w.id) => response'.user = w.user_id]_vars

\* a user asked to change a set entry of another user's session, and was refused
C26_Witness ==
    /\ response.handler = "update_set_entry"
    /\ response.raised = "NotFoundException"
    /\ \E w \in GetById(workout_sessions, response.session_id) : w.user_id # response.user
    /\ set_entries # {}

(***************************************************************************)
(* Programs and their schedule: create_program, add_week_to_program and    *)
(* schedule_program.  A date is the number of its day; the workout         *)
(* templates are a fixed catalogue.                                        *)
(***************************************************************************)
MaxDays == 2

WeekNumbers == {1, 2}

MaxWeeks == 3

WorkoutTemplateIds == {1, 2}

StartDates == {10}

ScheduleResponse(handler, user, raised, program_id, start_date, count) ==
    [handler |-> handler, user |-> user, raised |-> raised, program_id |-> program_id,
     start_date |-> start_date, scheduled_workouts_count |-> count]

ScheduleAnswer(resp) ==
    /\ requests < MaxRequests
    /\ requests' = requests + 1
    /\ response' = resp
    /\ UNCHANGED <<dbVars, runVars, histVars, workoutVars, linkVars, sessionVars>>

\* crud_program.get(db, id = program_id, user_id = current_user["id"])
GetProgramOfUser(program_id, user) ==
    {p \in programs : p.id = program_id /\ p.user_id = user}

\* the lists that hold each of the rows once
RECURSIVE Orders(_)
Orders(rows) ==
    IF rows = {} THEN {<<>>}
    ELSE UNION {{<<r>> \o rest : rest \in Orders(rows \ {r})} : r \in rows}

\* crud_program_week.get_multi(db, program_id = program_id): the weeks of the
\* program, in each order the database may return them
WeeksOfProgram(program_id) ==
    Orders({w \in program_weeks : w.program_id = program_id})

\* POST /program
CreateProgram ==
    \E user \in Users, days_per_week \in 1..MaxDays :
        /\ programs' = programs \cup
                {[id |-> program_seq + 1, user_id |-> user, days_per_week |-> days_per_week]}
        /\ program_seq' = program_seq + 1
        /\ ScheduleAnswer(ScheduleResponse("create_program", user, "none", program_seq + 1, 0, 0))
        /\ UNCHANGED <<program_weeks, program_week_seq, scheduled_workouts,
                       scheduled_workout_seq>>

\* POST /program/{program_id}/week
AddWeekToProgram ==
    \E user \in Users, program_id \in 1..(program_seq + 1), week_number \in WeekNumbers,
       workout_template_id \in WorkoutTemplateIds \cup {Null} :
        IF GetProgramOfUser(program_id, user) = {}
        THEN /\ ScheduleAnswer(ScheduleResponse("add_week_to_program", user,
                                                "NotFoundException", program_id, 0, 0))
             /\ UNCHANGED scheduleVars
        ELSE /\ program_week_seq < MaxWeeks
             /\ program_weeks' = program_weeks \cup
                    {[id |-> program_week_seq + 1, program_id |-> program_id,
                      week_number |-> week_number,
                      workout_template_id |-> workout_template_id]}
             /\ program_week_seq' = program_week_seq + 1
             /\ ScheduleAnswer(ScheduleResponse("add_week_to_program", user, "none",
                                                program_id, 0, 0))
             /\ UNCHANGED <<programs, program_seq, scheduled_workouts, scheduled_workout_seq>>

\* (faulty variant: the date is not moved on from one workout to the next)
ScheduleDaysOnOneDate(user, program_id, week, days, current_date, seq) ==
    {[id |-> seq + day + 1, user_id |-> user,
      workout_template_id |-> week.workout_template_id,
      scheduled_date |-> current_date, program_id |-> program_id,
      program_week |-> week.week_number, status |-> "scheduled"] : day \in 0..(days - 1)}

\* for day in range(program_days_per_week): the workouts of one week, one a
\* day from current_date on, with the ids seq + 1, seq + 2, ...
ScheduleDays(user, program_id, week, days, current_date, seq) ==
    {[id |-> seq + day + 1, user_id |-> user,
      workout_template_id |-> week.workout_template_id,
      scheduled_date |-> current_date + day, program_id |-> program_id,
      program_week |-> week.week_number, status |-> "scheduled"] : day \in 0..(days - 1)}

\* for week in weeks: a week without a template is passed over; the others
\* get their workouts, and the date and the count move on by one with each
RECURSIVE ScheduleWeeks(_, _, _, _, _)
ScheduleWeeks(user, program, weeks, current_date, seq) ==
    IF weeks = <<>> THEN {}
    ELSE LET week == Head(weeks)
             days == IF program.days_per_week > 0 THEN program.days_per_week ELSE 0
         IN  IF week.workout_template_id = Null
             THEN ScheduleWeeks(user, program, Tail(weeks), current_date, seq)
             ELSE ScheduleDays(user, program.id, week, days, current_date, seq)
                  \cup ScheduleWeeks(user, program, Tail(weeks), current_date + days,
                                     seq + days)

\* POST /program/{program_id}/schedule
ScheduleProgram ==
    \E user \in Users, program_id \in 1..(program_seq + 1), start_date \in StartDates :
        IF GetProgramOfUser(program_id, user) = {}
        THEN /\ ScheduleAnswer(ScheduleResponse("schedule_program", user, "NotFoundException",
                                                program_id, start_date, 0))
             /\ UNCHANGED scheduleVars
        ELSE \E weeks \in WeeksOfProgram(program_id) :
                IF weeks = <<>>
                THEN /\ ScheduleAnswer(ScheduleResponse("schedule_program", user,
                                                        "NotFoundException", program_id,
                                                        start_date, 0))
                     /\ UNCHANGED scheduleVars
                ELSE LET program == CHOOSE p \in GetProgramOfUser(program_id, user) : TRUE
                         created == ScheduleWeeks(user, program, weeks, start_date,
                                                  scheduled_workout_seq)
                     IN  /\ scheduled_workouts' = scheduled_workouts \cup created
                         /\ scheduled_workout_seq' =
                                scheduled_workout_seq + Cardinality(created)
                         /\ ScheduleAnswer(ScheduleResponse("schedule_program", user, "none",
                                                            program_id, start_date,
                                                            Cardinality(created)))
                         /\ UNCHANGED <<programs, program_seq, program_weeks,
                                        program_week_seq>>

\* user 1 has a program of two days a week, with a first week that has a
\* template and a second week that has none; nothing is scheduled yet
InitSchedule ==
    /\ equipment = {}
    /\ equipment_seq = 0
    /\ muscle_groups = {}
    /\ muscle_group_seq = 0
    /\ exercises = {}
    /\ exercise_seq = 0
    /\ NoRun
    /\ workouts = {}
    /\ workout_seq = 0
    /\ exercise_instances = {}
    /\ exercise_instance_seq = 0
    /\ sets = {}
    /\ set_seq = 0
    /\ exercise_equipment = {}
    /\ exercise_equipment_seq = 0
    /\ calls = NoCalls
    /\ workout_sessions = {}
    /\ workout_session_seq = 0
    /\ exercise_entries = {}
    /\ exercise_entry_seq = 0
    /\ set_entries = {}
    /\ set_entry_seq = 0
    /\ programs = {[id |-> 1, user_id |-> 1, days_per_week |-> 2]}
    /\ program_seq = 1
    /\ program_weeks = {[id |-> 1, program_id |-> 1, week_number |-> 1,
                         workout_template_id |-> 1],
                        [id |-> 2, program_id |-> 1, week_number |-> 2,
                         workout_template_id |-> Null]}
    /\ program_week_seq = 2
    /\ scheduled_workouts = {}
    /\ scheduled_workout_seq = 0
    /\ response = NoResponse
    /\ requests = 0

NextSchedule ==
    \/ CreateProgram
    \/ AddWeekToProgram
    \/ ScheduleProgram

SpecSchedule == InitSchedule /\ [][NextSchedule]_vars

(***************************************************************************)
(* C27  schedule_program.                                                  *)
(***************************************************************************)
\* the weeks of the program that have a workout template
TemplateWeeks(program_id) ==
    {w \in program_weeks : w.program_id = program_id /\ w.workout_template_id # Null}

\* C27: schedule_program for a program owned by the current user with W weeks
\* that have a workout template and days_per_week = D creates exactly W x D
\* scheduled workouts with status 'scheduled', each carrying its week's
\* week_number and template (D for each week), dated on consecutive days
\* starting at start_date, and returns scheduled_workouts_count = W x D;
\* weeks without a template create nothing, and a program that is missing,
\* owned by another user or has no weeks raises NotFoundException and creates
\* nothing.
C27_ScheduleProgram ==
    [][response'.handler = "schedule_program" =>
        LET user       == response'.user
            program_id == response'.program_id
            start_date == response'.start_date
            owned      == {p \in programs : p.id = program_id /\ p.user_id = user}
            weeks      == {w \in program_weeks : w.program_id = program_id}
            new        == scheduled_workouts' \ scheduled_workouts
        IN  IF owned = {} \/ weeks = {}
            THEN /\ response'.raised = "NotFoundException"
                 /\ UNCHANGED scheduleVars
            ELSE LET D == (CHOOSE p \in owned : TRUE).days_per_week
                     W == Cardinality(TemplateWeeks(program_id))
                 IN  /\ response'.raised = "none"
                     /\ response'.scheduled_workouts_count = W * D
                     /\ scheduled_workouts \subseteq scheduled_workouts'
                     /\ Cardinality(new) = W * D
                     /\ \A s \in new :
                            /\ s.status = "scheduled"
                            /\ s.user_id = user
                            /\ s.program_id = program_id
                            /\ \E w \in TemplateWeeks(program_id) :
                                    /\ s.program_week = w.week_number
                                    /\ s.workout_template_id = w.workout_template_id
                     /\ \A w \in TemplateWeeks(program_id) :
                            Cardinality({s \in new :
                                            /\ s.program_week = w.week_number
                                            /\ s.workout_template_id = w.workout_template_id})
                            = D * Cardinality({v \in TemplateWeeks(program_id) :
                                            /\ v.week_number = w.week_number
                                            /\ v.workout_template_id = w.workout_template_id})
                     /\ {s.scheduled_date : s \in new} = start_date..(start_date + W * D - 1)
                     /\ UNCHANGED <<programs, program_weeks>>]_vars

\* a program of two days a week with two weeks that have a template and one
\* that has none was scheduled: four workouts
C27_Witness ==
    /\ response.handler = "schedule_program"
    /\ response.raised = "none"
    /\ response.scheduled_workouts_count = 4
    /\ Cardinality(TemplateWeeks(response.program_id)) = 2
    /\ \E w \in program_weeks :
            w.program_id = response.program_id /\ w.workout_template_id = Null
    /\ Cardinality(scheduled_workouts) = 4

=============================================================================
